---- MODULE Spec2Model ----
(***************************************************************************)
(* Planner: the bidirectional sync engine (services/sync_service.py) with  *)
(* the pending-operation queue (services/pending_ops_queue.py), the local  *)
(* task store (services/tasks.py) and the cursor storage                   *)
(* (services/sync_token_storage.py).                                       *)
(*                                                                         *)
(* Time is a discrete clock `now`; the value None (0) stands for Python's  *)
(* None in every optional field.  Task fields no engine reads (gcal_etag,  *)
(* created_at, due) are not carried.                                       *)
(*                                                                         *)
(* Beside SyncService the repository holds two engines for the tasks that  *)
(* have no date: UndatedTasksSync (services/undated_tasks_sync.py, over    *)
(* services/tasks_bridge.py and the metadata index of services/appdata.py) *)
(* and GoogleTasksSync (services/google_tasks.py).  Each has its own       *)
(* tables and its own specification below.                                 *)
(***************************************************************************)
EXTENDS Integers, Sequences, FiniteSets, TLC

\* ---------------------------------------------------------------- bounds
MaxTasks == 1      \* local task ids 1..MaxTasks
MaxRemote == 1     \* remote entity ids 1..MaxRemote, per backend
MaxItems == 1      \* items of one remote listing
MaxTicks == 1      \* the clock ticks at most MaxTicks times
MaxQueue == 2      \* Spec: rows of the pending-operation table
MaxBacklog == 3    \* SpecPush: rows of the pending-operation table

\* ------------------------------------------------------------- constants
None == 0
NoneStr == ""     \* None, or the empty string, of a text field
DueLimit == 10
BackoffCap == 30
ErrorLimit == 1000
\* the first sync of the calendar looks back timedelta(days=90); the clock
\* counts seconds
LookbackDays == 90
DaySeconds == 86400

\* the title given to a remote item that has none
DefaultTitle == "untitled"

TaskIds == 1..MaxTasks
RemoteIds == 1..MaxRemote

\* AppShell: the auto-refresh loop and a handler of the UI, each outside a
\* pass ("idle"), with its pass requested ("fired"), or inside it ("pull",
\* "push"); during: the request came while the other was inside a pass
Callers == {"loop", "ui"}
ShellInit == [c \in Callers |-> [at |-> "idle", during |-> FALSE, kind |-> "tick"]]

\* GoogleTasksSync.pull: no watermark stored, no pull under way (page is
\* the response of tasks().list the running pull holds), and nothing listed
\* yet (listed: remote task id -> the revision a listing last returned)
TasksPullInit ==
    [updated_min |-> None, stage |-> "idle", page |-> <<>>, listed |-> <<>>]

\* AppDataClient: at most _MAX_RETRIES uploads of one write
_MAX_RETRIES == 5

\* the index file as ensure_files creates it, at its first revision, and a
\* device that has read nothing yet; base is the revision the payload of the
\* device was read from, or written as, whatever the response said of it
AppDataInit ==
    [blob |-> [etag |-> 1, tasks |-> <<>>],
     dev |-> [d \in 1..2 |->
                [cache |-> <<>>, loaded |-> FALSE, etag |-> None, dirty |-> FALSE,
                 stage |-> "idle", payload |-> <<>>, local |-> <<>>,
                 if_match |-> None, attempt |-> 0, raised |-> FALSE,
                 base |-> None]]]

\* the body of an event the engine has written nothing to
NoBody == [summary |-> NoneStr, notes |-> NoneStr, start |-> None, end |-> None]
\* the clock starts at 3 and a tick is two seconds, the first backoff delay
StartTime == 3
\* the revision stamps the remote puts on its items: between and at the
\* later readings of the local clock
RemoteTimes == (StartTime + 1)..(StartTime + 2 * MaxTicks)

\* dt.replace(hour=0, minute=0, second=0, microsecond=0): the schedule has
\* one day, whose midnight is the instant 1
Midnight(dt) == IF dt = None THEN None ELSE 1

VARIABLES
    tasks,          \* the Task table: id -> row, for the rows that exist
    nextTaskId,     \* the next primary key of the Task table
    queue,          \* the PendingOp table, in insertion order
    now,            \* utc_now()
    calToken,       \* SyncTokenStorage: calendar.syncToken (None = absent)
    tasksUpdatedMin,\* SyncTokenStorage: tasks.updatedMin (None = absent)
    gcalRemote,     \* remote calendar: event id -> "free" | "live" | "gone"
    gtasksRemote,   \* remote tasks: task id -> "free" | "live" | "gone"
    pc,             \* position inside pull_all: "idle" | "cal_retry" | "tasks"
    mappings,       \* UndatedTasksSync: the SyncMapUndated table, by task id
    index,          \* UndatedTasksSync: the metadata index, by remote task id
    bridge,         \* UndatedTasksSync: the bridge the engine was built over
    store,          \* GoogleTasksSync: the mappings of TaskSyncStore, by task id
    lastPush,       \* GoogleTasksSync: last_push_at of TaskSyncMeta
    remoteTasks,    \* GoogleTasksSync: the items of the remote task list
    tokenFile,      \* what the path of the cursor file holds
    localWon,       \* SpecWins: the tasks a pull found newer than their event
    eventBody,      \* SpecWins: event id -> the body the engine last wrote to it
    appdata,        \* the metadata index in the store, and each device's AppDataClient
    eventMarker,    \* remote calendar: event id -> the task id its description names
    shell,          \* AppShell: where the auto-refresh loop and a UI handler stand in a pass
    tasksPull       \* GoogleTasksSync: updated_min of TaskSyncMeta, and the pull under way

vars == <<tasks, nextTaskId, queue, now, calToken, tasksUpdatedMin,
          gcalRemote, gtasksRemote, pc, mappings, index, bridge, store,
          lastPush, remoteTasks, tokenFile, localWon, eventBody, appdata, eventMarker, shell, tasksPull>>

\* the tables of the two other engines, which SyncService never touches,
\* the cursor file, which it reaches through calToken and tasksUpdatedMin,
\* and the record SpecWins keeps of the pulls and of the bodies written
otherEngines ==
    <<mappings, index, bridge, store, lastPush, remoteTasks, tokenFile, localWon, eventBody, appdata, eventMarker, shell, tasksPull>>

\* ------------------------------------------------------------ Task rows
Merge(r, f) == [k \in DOMAIN r |-> IF k \in DOMAIN f THEN f[k] ELSE r[k]]

NewTask(title, notes, start, duration, at) ==
    [title |-> title, notes |-> notes, start |-> start,
     duration_minutes |-> duration,
     gcal_event_id |-> None, gcal_updated |-> None,
     gtasks_id |-> None, gtasks_updated |-> None,
     priority |-> 0, status |-> "todo",
     updated_at |-> at]

_is_scheduled(t) == t.start # None /\ t.duration_minutes # None

Min(S) == CHOOSE x \in S : \A y \in S : x <= y

\* TaskService.get_by_event_id: the id of the first row with this event id
get_by_event_id(ts, eid) ==
    IF eid = None THEN None
    ELSE LET m == {i \in DOMAIN ts : ts[i].gcal_event_id = eid}
         IN IF m = {} THEN None ELSE Min(m)

\* TaskService.get_by_gtasks_id
get_by_gtasks_id(ts, gid) ==
    IF gid = None THEN None
    ELSE LET m == {i \in DOMAIN ts : ts[i].gtasks_id = gid}
         IN IF m = {} THEN None ELSE Min(m)

\* TaskService.update_from_sync: set the given fields, then updated_at
update_from_sync(ts, id, f, upd, at) ==
    IF id \notin DOMAIN ts THEN ts
    ELSE [ts EXCEPT ![id] =
            [Merge(@, f) EXCEPT !.updated_at = IF upd # None THEN upd ELSE at]]

\* TaskService.add: the new row
add(ts, nid, title, notes, start, duration, at) ==
    (nid :> NewTask(title, notes, start, duration, at)) @@ ts

\* TaskService.update: start and duration_minutes are always assigned, title
\* only when given
update(ts, id, title, start, duration, at) ==
    IF id \notin DOMAIN ts THEN ts
    ELSE [ts EXCEPT ![id] =
            [@ EXCEPT !.title = IF title # NoneStr THEN title ELSE @,
                      !.start = start,
                      !.duration_minutes = duration,
                      !.updated_at = at]]

\* TaskService.delete: the row is gone
delete(ts, id) == [i \in DOMAIN ts \ {id} |-> ts[i]]

\* TaskService.delete_from_sync: delete without the hook
delete_from_sync(ts, id) == delete(ts, id)

\* ------------------------------------------------------ PendingOpsQueue
\* 2 ** n
Pow2(n) == IF n <= 0 THEN 1 ELSE 2 ^ n

\* the six recognised operation kinds
VALID_OPS == {"gcal_create", "gcal_update", "gcal_delete",
              "gtasks_create", "gtasks_update", "gtasks_delete"}

\* error[:1000]
Truncate(error) ==
    IF Len(error) > ErrorLimit THEN SubSeq(error, 1, ErrorLimit) ELSE error

\* the delay without the cap
_next_try_uncapped(attempts, at) ==
    at + Pow2(IF attempts > 0 THEN attempts ELSE 0)

\* a retry that is due at once
_next_try_at_once(attempts, at) == at

\* _next_try: utc_now() + min(30, 2 ** max(attempts, 0)) seconds
_next_try(attempts, at) ==
    LET p == Pow2(IF attempts > 0 THEN attempts ELSE 0)
    IN at + (IF p < BackoffCap THEN p ELSE BackoffCap)

\* enqueue raises ValueError("Unsupported op")
enqueue_raises(op) == op \notin VALID_OPS

\* an enqueue that merges with a row of the same operation and task
enqueue_merged(q, op, task_id, payload, at) ==
    IF enqueue_raises(op) THEN q
    ELSE IF \E i \in 1..Len(q) : q[i].op = op /\ q[i].task_id = task_id THEN q
    ELSE Append(q, [op |-> op, task_id |-> task_id, payload |-> payload,
                    attempts |-> 0, last_error |-> "", next_try_at |-> at])

\* PendingOpsQueue.enqueue: the table after the call, which is the table
\* before it when the call raises
enqueue(q, op, task_id, payload, at) ==
    IF enqueue_raises(op) THEN q
    ELSE Append(q, [op |-> op, task_id |-> task_id, payload |-> payload,
                    attempts |-> 0, last_error |-> "", next_try_at |-> at])

\* requeue without the count of the attempt
requeue_uncounted(e, error, at) ==
    [e EXCEPT !.last_error = Truncate(error),
              !.next_try_at = _next_try(e.attempts + 1, at)]

\* a requeue that leaves the row where it is in the order of due()
requeue_in_place(e, error, at) ==
    [e EXCEPT !.attempts = @ + 1, !.last_error = Truncate(error)]

\* PendingOpsQueue.requeue, applied to the row itself
requeue(e, error, at) ==
    [e EXCEPT !.attempts = @ + 1,
              !.last_error = Truncate(error),
              !.next_try_at = _next_try(e.attempts + 1, at)]

\* ---------------------------------------------------- queue helpers
_queue_calendar_sync(q, id, t, at) ==
    IF t.gcal_event_id # None
    THEN enqueue(q, "gcal_update", id, t.gcal_event_id, at)
    ELSE enqueue(q, "gcal_create", id, None, at)

_queue_tasks_sync(q, id, t, at) ==
    IF t.gtasks_id # None
    THEN enqueue(q, "gtasks_update", id, t.gtasks_id, at)
    ELSE enqueue(q, "gtasks_create", id, None, at)

_ensure_calendar_delete(q, id, t, at) ==
    IF t.gcal_event_id # None
    THEN enqueue(q, "gcal_delete", id, t.gcal_event_id, at)
    ELSE q

\* a hook that leaves the tasks-backend entry of a task in place
_ensure_tasks_delete_skipped(q, id, t, at) == q

_ensure_tasks_delete(q, id, t, at) ==
    IF t.gtasks_id # None
    THEN enqueue(q, "gtasks_delete", id, t.gtasks_id, at)
    ELSE q

\* ------------------------------------------------- hooks of TaskService
\* SyncService.on_task_created and on_task_updated (the same body)
on_task_updated(q, ts, id, at) ==
    IF id \notin DOMAIN ts THEN q
    ELSE IF _is_scheduled(ts[id])
         THEN _queue_calendar_sync(_ensure_tasks_delete(q, id, ts[id], at),
                                   id, ts[id], at)
         ELSE _queue_tasks_sync(_ensure_calendar_delete(q, id, ts[id], at),
                                id, ts[id], at)

on_task_created(q, ts, id, at) == on_task_updated(q, ts, id, at)

\* SyncService.on_task_deleted
on_task_deleted(q, ts, id, at) ==
    IF id \notin DOMAIN ts THEN q
    ELSE LET q1 == IF ts[id].gcal_event_id # None
                   THEN enqueue(q, "gcal_delete", id, ts[id].gcal_event_id, at)
                   ELSE q
         IN IF ts[id].gtasks_id # None
            THEN enqueue(q1, "gtasks_delete", id, ts[id].gtasks_id, at)
            ELSE q1

\* ======================================================================
\* SyncTokenStorage and JsonTokenStore over the cursor file
\* ======================================================================
\* A stored instant is JSON text: to_rfc3339_utc(None) is null, <<>>, and
\* to_rfc3339_utc(t) the text of t, <<t>>; _parse_datetime reads it back.
to_rfc3339_utc(t) == IF t = None THEN <<>> ELSE <<t>>
_parse_datetime(value) == IF value = <<>> THEN None ELSE value[1]

\* the JSON object of the file: the "calendar" and "tasks" objects (present
\* or not), the top-level "syncToken" that JsonTokenStore writes, and
\* "lastPushAt"
EmptyData ==
    [calendar |-> [present |-> FALSE, syncToken |-> None, lastPullAt |-> <<>>],
     tasks |-> [present |-> FALSE, updatedMin |-> <<>>, lastPullAt |-> <<>>],
     syncToken |-> None,
     lastPushAt |-> <<>>]

\* What the path holds: no file ("missing"); bytes that are not UTF-8
\* ("bytes"); text that is not JSON, as a torn write leaves it ("text"); a
\* JSON object ("dict"); a JSON string, the oldest format, kept in
\* data.syncToken ("string"); any other JSON value ("other").
NoFile == [kind |-> "missing", data |-> EmptyData]
Unreadable(kind) == [kind |-> kind, data |-> EmptyData]

\* the outcome of a call on the storage: it raised, or returned value and
\* left the file as `file`
Returns(value, f) == [raised |-> FALSE, value |-> value, file |-> f]
Raises(f) == [raised |-> TRUE, value |-> None, file |-> f]

\* SyncTokenStorage._load: read_text decodes UTF-8 and raises
\* UnicodeDecodeError on other bytes; FileNotFoundError and JSONDecodeError
\* give {}; a JSON string gives {"calendar": {"syncToken": data}}
_load(f) ==
    IF f.kind = "bytes" THEN Raises(f)
    ELSE IF f.kind = "dict" THEN Returns(f.data, f)
    ELSE IF f.kind = "string"
    THEN Returns([EmptyData EXCEPT !.calendar.present = TRUE,
                                   !.calendar.syncToken = f.data.syncToken], f)
    ELSE Returns(EmptyData, f)

\* SyncTokenStorage._save
_save(data) == Returns(None, [kind |-> "dict", data |-> data])

get_calendar_token(f) ==
    LET l == _load(f) IN
    IF l.raised THEN l
    ELSE IF l.value.calendar.syncToken # None
    THEN Returns(l.value.calendar.syncToken, f)
    ELSE Returns(l.value.syncToken, f)

set_calendar_token(f, token) ==
    LET l == _load(f) IN
    IF l.raised THEN l
    ELSE _save([l.value EXCEPT !.calendar.present = TRUE,
                               !.calendar.syncToken = token])

clear_calendar_token(f) ==
    LET l == _load(f) IN
    IF l.raised THEN l
    ELSE _save([l.value EXCEPT !.calendar.syncToken = None,
                               !.syncToken = None])

set_calendar_pull_timestamp(f, at) ==
    LET l == _load(f) IN
    IF l.raised THEN l
    ELSE _save([l.value EXCEPT !.calendar.present = TRUE,
                               !.calendar.lastPullAt = to_rfc3339_utc(at)])

get_calendar_pull_timestamp(f) ==
    LET l == _load(f) IN
    IF l.raised THEN l
    ELSE Returns(_parse_datetime(l.value.calendar.lastPullAt), f)

get_tasks_updated_min(f) ==
    LET l == _load(f) IN
    IF l.raised THEN l
    ELSE Returns(_parse_datetime(l.value.tasks.updatedMin), f)

set_tasks_updated_min(f, value) ==
    LET l == _load(f) IN
    IF l.raised THEN l
    ELSE _save([l.value EXCEPT !.tasks.present = TRUE,
                               !.tasks.updatedMin = to_rfc3339_utc(value)])

set_tasks_pull_timestamp(f, at) ==
    LET l == _load(f) IN
    IF l.raised THEN l
    ELSE _save([l.value EXCEPT !.tasks.present = TRUE,
                               !.tasks.lastPullAt = to_rfc3339_utc(at)])

get_tasks_pull_timestamp(f) ==
    LET l == _load(f) IN
    IF l.raised THEN l
    ELSE Returns(_parse_datetime(l.value.tasks.lastPullAt), f)

set_last_push_timestamp(f, at) ==
    LET l == _load(f) IN
    IF l.raised THEN l
    ELSE _save([l.value EXCEPT !.lastPushAt = to_rfc3339_utc(at)])

get_last_push_timestamp(f) ==
    LET l == _load(f) IN
    IF l.raised THEN l
    ELSE Returns(_parse_datetime(l.value.lastPushAt), f)

\* SyncTokenStorage.clear_all: unlink the file if it exists
clear_all(f) == Returns(None, NoFile)

\* JsonTokenStore.get_sync_token: data.get("syncToken") of the JSON object;
\* `except Exception` turns every failure into None
get_sync_token(f) ==
    IF f.kind = "dict" THEN Returns(f.data.syncToken, f) ELSE Returns(None, f)

\* JsonTokenStore.set_sync_token: the file is rewritten as
\* {"syncToken": token}
set_sync_token(f, token) ==
    Returns(None, [kind |-> "dict",
                   data |-> [EmptyData EXCEPT !.syncToken = token]])

\* the getters of both classes
Getters(f) ==
    <<get_calendar_token(f), get_calendar_pull_timestamp(f),
      get_tasks_updated_min(f), get_tasks_pull_timestamp(f),
      get_last_push_timestamp(f), get_sync_token(f)>>

\* the cursors the storage is given
StoredTokens == {1, 2}

\* the setters, each a whole call: load, change, save
Setters(f, at) ==
    {set_calendar_token(f, token) : token \in StoredTokens}
    \cup {clear_calendar_token(f), set_calendar_pull_timestamp(f, at),
          set_tasks_pull_timestamp(f, at), set_last_push_timestamp(f, at),
          clear_all(f)}
    \cup {set_tasks_updated_min(f, value) : value \in {None, at}}
    \cup {set_sync_token(f, token) : token \in StoredTokens}

\* one call of a setter; a call that raises leaves the file as it was
TokensSet ==
    /\ \E r \in Setters(tokenFile, now) : tokenFile' = r.file
    /\ UNCHANGED <<tasks, nextTaskId, queue, now, calToken, tasksUpdatedMin,
                   gcalRemote, gtasksRemote, pc, mappings, index, bridge,
                   store, lastPush, remoteTasks,
                   localWon, eventBody, appdata, eventMarker, shell, tasksPull>>

\* the file is damaged from outside: write_text stops half way ("text"),
\* the medium returns other bytes ("bytes"), or an older version of the
\* program left a bare JSON string or another JSON value
FileDamaged ==
    /\ \/ \E kind \in {"text", "bytes", "other"} : tokenFile' = Unreadable(kind)
       \/ \E token \in StoredTokens :
            tokenFile' = [kind |-> "string",
                          data |-> [EmptyData EXCEPT !.syncToken = token]]
    /\ UNCHANGED <<tasks, nextTaskId, queue, now, calToken, tasksUpdatedMin,
                   gcalRemote, gtasksRemote, pc, mappings, index, bridge,
                   store, lastPush, remoteTasks,
                   localWon, eventBody, appdata, eventMarker, shell, tasksPull>>

TokensClock ==
    /\ now + 2 <= StartTime + 2 * MaxTicks
    /\ now' = now + 2
    /\ UNCHANGED <<tasks, nextTaskId, queue, calToken, tasksUpdatedMin,
                   gcalRemote, gtasksRemote, pc>>
    /\ UNCHANGED otherEngines

\* Path.write_text inside _save: open(mode "w") empties the file, write()
\* fills it, close(). The files a crash during the call leaves behind: the
\* old one (before open), an empty or partly written one, the new one
write_text_crashed(f, data) ==
    {f, Unreadable("text"), [kind |-> "dict", data |-> data]}

\* the process dies inside a setter that had loaded the file and was saving
TokensCrash ==
    /\ \E r \in Setters(tokenFile, now) :
          /\ ~r.raised
          /\ tokenFile' \in write_text_crashed(tokenFile, r.file.data)
    /\ UNCHANGED <<tasks, nextTaskId, queue, now, calToken, tasksUpdatedMin,
                   gcalRemote, gtasksRemote, pc, mappings, index, bridge,
                   store, lastPush, remoteTasks,
                   localWon, eventBody, appdata, eventMarker, shell, tasksPull>>

NextTokens ==
    \/ TokensSet
    \/ FileDamaged
    \/ TokensCrash
    \/ TokensClock

\* ----------------------------------------------------------------- Init
Init ==
    /\ tasks = <<>>
    /\ nextTaskId = 1
    /\ queue = <<>>
    /\ now = StartTime
    /\ calToken = None
    /\ tasksUpdatedMin = None
    /\ gcalRemote = [i \in RemoteIds |-> "free"]
    /\ gtasksRemote = [i \in RemoteIds |-> "free"]
    /\ pc = "idle"
    /\ mappings = <<>>
    /\ index = <<>>
    /\ bridge = "GoogleTasksBridge"
    /\ store = <<>>
    /\ lastPush = None
    /\ remoteTasks = <<>>
    /\ tokenFile = [kind |-> "missing", data |-> EmptyData]
    /\ localWon = {}
    /\ eventBody = [i \in RemoteIds |-> NoBody]
    /\ appdata = AppDataInit
    /\ eventMarker = [i \in RemoteIds |-> None]
    /\ shell = ShellInit
    /\ tasksPull = TasksPullInit

\* the cursor storage alone
SpecTokens == Init /\ [][NextTokens]_vars

\* ---------------------------------------------------------- local edits
LocalTitles == {"L"}
\* (start, duration_minutes) as the user sets them: undated, dated without
\* a time slot, scheduled
Schedules == {<<None, None>>, <<1, None>>, <<1, 1>>}

\* TaskService.add, with the after_create hook
LocalAdd(title, start, duration, cap) ==
    /\ pc = "idle"
    /\ nextTaskId <= MaxTasks
    /\ LET id == nextTaskId
           ts == add(tasks, id, title, NoneStr, start, duration, now)
           q == on_task_created(queue, ts, id, now)
       IN /\ Len(q) <= cap
          /\ tasks' = ts
          /\ queue' = q
          /\ nextTaskId' = id + 1
    /\ UNCHANGED <<now, calToken, tasksUpdatedMin, gcalRemote, gtasksRemote, pc>>
    /\ UNCHANGED otherEngines

\* TaskService.update, with the after_update hook
LocalUpdate(id, title, start, duration, cap) ==
    /\ pc = "idle"
    /\ id \in DOMAIN tasks
    /\ LET ts == update(tasks, id, title, start, duration, now)
           q == on_task_updated(queue, ts, id, now)
       IN /\ Len(q) <= cap
          /\ tasks' = ts
          /\ queue' = q
    /\ UNCHANGED <<nextTaskId, now, calToken, tasksUpdatedMin, gcalRemote,
                   gtasksRemote, pc>>
    /\ UNCHANGED otherEngines

\* TaskService.delete: the after_delete hook runs before the row is deleted
LocalDelete(id, cap) ==
    /\ pc = "idle"
    /\ id \in DOMAIN tasks
    /\ LET q == on_task_deleted(queue, tasks, id, now)
       IN /\ Len(q) <= cap
          /\ queue' = q
          /\ tasks' = delete(tasks, id)
    /\ UNCHANGED <<nextTaskId, now, calToken, tasksUpdatedMin, gcalRemote,
                   gtasksRemote, pc>>
    /\ UNCHANGED otherEngines

\* ------------------------------------------- local edits, failing hooks
\* a listener that propagates what its subscriber raises
_emit_unguarded(q, hooked, fail_at) ==
    IF fail_at = 0 \/ Len(hooked) < Len(q) + fail_at
    THEN [queue |-> hooked, raised |-> FALSE]
    ELSE [queue |-> SubSeq(hooked, 1, Len(q) + fail_at - 1), raised |-> TRUE]

\* TaskService._emit: each listener runs inside try/except Exception.
\* hooked is the queue the subscriber of SyncService leaves when nothing
\* fails; fail_at = k > 0: its k-th enqueue raises, the rows enqueued
\* before it are committed and the exception is swallowed
_emit(q, hooked, fail_at) ==
    IF fail_at = 0 \/ Len(hooked) < Len(q) + fail_at
    THEN [queue |-> hooked, raised |-> FALSE]
    ELSE [queue |-> SubSeq(hooked, 1, Len(q) + fail_at - 1), raised |-> FALSE]

\* TaskService.add: commit the row, then emit after_create
TaskService_add(ts, q, nid, title, start, duration, emit, fail_at, at) ==
    LET committed == add(ts, nid, title, NoneStr, start, duration, at)
        e == IF emit
             THEN _emit(q, on_task_created(q, committed, nid, at), fail_at)
             ELSE [queue |-> q, raised |-> FALSE]
    IN  [tasks |-> committed, next |-> nid + 1, queue |-> e.queue,
         raised |-> e.raised]

\* TaskService.update: commit the row, then emit after_update
TaskService_update(ts, q, id, title, start, duration, emit, fail_at, at) ==
    LET committed == update(ts, id, title, start, duration, at)
        e == IF emit /\ id \in DOMAIN ts
             THEN _emit(q, on_task_updated(q, committed, id, at), fail_at)
             ELSE [queue |-> q, raised |-> FALSE]
    IN  [tasks |-> committed, queue |-> e.queue, raised |-> e.raised]

\* TaskService.delete: emit after_delete, then delete the row and commit;
\* an exception of the emit would leave the row in place
TaskService_delete(ts, q, id, emit, fail_at, at) ==
    LET e == IF emit /\ id \in DOMAIN ts
             THEN _emit(q, on_task_deleted(q, ts, id, at), fail_at)
             ELSE [queue |-> q, raised |-> FALSE]
    IN  [tasks |-> IF e.raised \/ id \notin DOMAIN ts THEN ts ELSE delete(ts, id),
         queue |-> e.queue, raised |-> e.raised]

\* the enqueue of a hook that fails: none, the first, the second
HookFailures == 0..2

CrudAdd(title, start, duration, fail_at) ==
    /\ pc = "idle"
    /\ nextTaskId <= MaxTasks
    /\ LET r == TaskService_add(tasks, queue, nextTaskId, title, start, duration,
                                TRUE, fail_at, now)
       IN  /\ Len(r.queue) <= MaxQueue
           /\ tasks' = r.tasks
           /\ queue' = r.queue
           /\ nextTaskId' = r.next
    /\ UNCHANGED <<now, calToken, tasksUpdatedMin, gcalRemote, gtasksRemote, pc>>
    /\ UNCHANGED otherEngines

CrudUpdate(id, title, start, duration, fail_at) ==
    /\ pc = "idle"
    /\ id \in DOMAIN tasks
    /\ LET r == TaskService_update(tasks, queue, id, title, start, duration,
                                   TRUE, fail_at, now)
       IN  /\ Len(r.queue) <= MaxQueue
           /\ tasks' = r.tasks
           /\ queue' = r.queue
    /\ UNCHANGED <<nextTaskId, now, calToken, tasksUpdatedMin, gcalRemote,
                   gtasksRemote, pc>>
    /\ UNCHANGED otherEngines

CrudDelete(id, fail_at) ==
    /\ pc = "idle"
    /\ id \in DOMAIN tasks
    /\ LET r == TaskService_delete(tasks, queue, id, TRUE, fail_at, now)
       IN  /\ Len(r.queue) <= MaxQueue
           /\ tasks' = r.tasks
           /\ queue' = r.queue
    /\ UNCHANGED <<nextTaskId, now, calToken, tasksUpdatedMin, gcalRemote,
                   gtasksRemote, pc>>
    /\ UNCHANGED otherEngines

\* ------------------------------------------------------------ pull side
\* The state a pull pass threads through its items: the Task table, the
\* queue, the next Task id, whether the Task table is full, and the number
\* of writes to the Task table (create, update, delete)
PullState(ts, q, nid) ==
    [tasks |-> ts, queue |-> q, next |-> nid, full |-> FALSE, writes |-> 0]

\* event_updated(event) or utc_now()
RemoteUpdated(item, at) == IF item.updated # None THEN item.updated ELSE at

\* event.get("summary") or the default title
ItemTitle(item) == IF item.title = NoneStr THEN DefaultTitle ELSE item.title

\* _duration_minutes(start, end)
_duration_minutes(start, end) ==
    IF start = None \/ end = None THEN None
    ELSE IF end - start > 0 THEN end - start ELSE None

\* the fields _apply_calendar_event takes from an event
EventFields(ev) ==
    [title |-> ItemTitle(ev), notes |-> ev.notes, start |-> ev.start,
     duration_minutes |-> _duration_minutes(ev.start, ev.end)]

\* the fields _apply_task_entry takes from an entry
EntryFields(entry) ==
    [title |-> ItemTitle(entry), notes |-> entry.notes,
     start |-> Midnight(entry.due), duration_minutes |-> None]

\* the idempotence guard: known_remote and remote_updated <= known_remote
remote_not_newer(known_remote, remote_updated) ==
    known_remote # None /\ remote_updated <= known_remote

\* the last-writer-wins test with the remote winning every tie dropped
remote_strictly_newer(remote_updated, local_updated) ==
    remote_updated > local_updated

\* the last-writer-wins test with the local revision ignored
remote_always(remote_updated, local_updated) == TRUE

\* the last-writer-wins test: remote_updated >= local_updated
remote_wins(remote_updated, local_updated) ==
    remote_updated >= local_updated

\* TaskService.create_from_sync
create_from_sync(st, f, at) ==
    IF st.next > MaxTasks THEN [st EXCEPT !.full = TRUE, !.writes = @ + 1]
    ELSE LET row == Merge(NewTask(NoneStr, NoneStr, None, None, at), f)
             fixed == IF row.start = None
                      THEN [row EXCEPT !.duration_minutes = None] ELSE row
         IN [st EXCEPT !.tasks = (st.next :> fixed) @@ st.tasks,
                       !.next = st.next + 1,
                       !.writes = @ + 1]

\* SyncService._apply_calendar_event
_apply_calendar_event(st, ev, at) ==
    LET id == get_by_event_id(st.tasks, ev.id)
        remote_updated == RemoteUpdated(ev, at)
    IN IF ev.status = "cancelled"
       THEN IF id = None THEN st
            ELSE LET ts == update_from_sync(st.tasks, id,
                              [start |-> None, duration_minutes |-> None,
                               gcal_event_id |-> None,
                               gcal_updated |-> remote_updated],
                              remote_updated, at)
                 IN [st EXCEPT !.tasks = ts,
                               !.writes = @ + 1,
                               !.queue = _queue_tasks_sync(st.queue, id, ts[id], at)]
       ELSE IF id = None
       THEN create_from_sync(st,
               Merge([title |-> NoneStr, notes |-> NoneStr, start |-> None,
                      duration_minutes |-> None, gcal_event_id |-> ev.id,
                      gcal_updated |-> remote_updated], EventFields(ev)), at)
       ELSE LET task == st.tasks[id]
            IN IF remote_not_newer(task.gcal_updated, remote_updated)
               THEN st
               ELSE IF remote_wins(remote_updated, task.updated_at)
               THEN [st EXCEPT
                       !.writes = @ + 1,
                       !.tasks = update_from_sync(st.tasks, id,
                              Merge([title |-> NoneStr, notes |-> NoneStr,
                                     start |-> None, duration_minutes |-> None,
                                     gcal_event_id |-> ev.id,
                                     gcal_updated |-> remote_updated],
                                    EventFields(ev)),
                              remote_updated, at)]
               ELSE [st EXCEPT !.queue = _queue_calendar_sync(st.queue, id, task, at)]

\* SyncService._apply_task_entry
_apply_task_entry(st, entry, at) ==
    LET id == get_by_gtasks_id(st.tasks, entry.id)
        remote_updated == RemoteUpdated(entry, at)
    IN IF entry.deleted
       THEN IF id # None
            THEN [st EXCEPT !.tasks = delete_from_sync(st.tasks, id),
                            !.writes = @ + 1]
            ELSE st
       ELSE IF id = None
       THEN create_from_sync(st,
               Merge([title |-> NoneStr, notes |-> NoneStr, start |-> None,
                      duration_minutes |-> None, gtasks_id |-> entry.id,
                      gtasks_updated |-> remote_updated], EntryFields(entry)), at)
       ELSE LET task == st.tasks[id]
            IN IF remote_not_newer(task.gtasks_updated, remote_updated)
               THEN st
               ELSE IF remote_wins(remote_updated, task.updated_at)
               THEN [st EXCEPT
                       !.writes = @ + 1,
                       !.tasks = update_from_sync(st.tasks, id,
                              Merge([title |-> NoneStr, notes |-> NoneStr,
                                     start |-> None, duration_minutes |-> None,
                                     gtasks_id |-> entry.id,
                                     gtasks_updated |-> remote_updated,
                                     gcal_event_id |-> IF ~_is_scheduled(task)
                                                       THEN None
                                                       ELSE task.gcal_event_id],
                                    EntryFields(entry)),
                              remote_updated, at)]
               ELSE [st EXCEPT !.queue = _queue_tasks_sync(st.queue, id, task, at)]

\* the loop of _pull_calendar over the first n items of the listing
RECURSIVE ApplyEvents(_, _, _, _)
ApplyEvents(st, items, n, at) ==
    IF n = 0 THEN st
    ELSE _apply_calendar_event(ApplyEvents(st, items, n - 1, at), items[n], at)

\* the loop of _pull_tasks over the first n items of the listing
RECURSIVE ApplyEntries(_, _, _, _)
ApplyEntries(st, items, n, at) ==
    IF n = 0 THEN st
    ELSE _apply_task_entry(ApplyEntries(st, items, n - 1, at), items[n], at)

\* the watermark _pull_tasks stores: the latest revision it has seen
RECURSIVE LatestRemote(_, _, _)
LatestRemote(latest, items, n) ==
    IF n = 0 THEN latest
    ELSE LET prev == LatestRemote(latest, items, n - 1)
             u == items[n].updated
         IN IF u # None /\ (prev = None \/ u > prev) THEN u ELSE prev

\* ------------------------------------------------- the remote listings
RemoteTitles == {"R"}
RemoteNotes == {"n"}
Tokens == {1}

\* the events the calendar can return for event id i
EventsOf(i) ==
    IF gcalRemote[i] = "gone"
    THEN {[id |-> i, status |-> "cancelled", updated |-> u, title |-> NoneStr,
           notes |-> NoneStr, start |-> None, end |-> None] :
             u \in RemoteTimes}
    ELSE IF gcalRemote[i] = "live"
    THEN {[id |-> i, status |-> "confirmed", updated |-> u, title |-> t,
           notes |-> n, start |-> 1, end |-> e] :
             u \in RemoteTimes, t \in RemoteTitles, n \in RemoteNotes, e \in {1, 2}}
    ELSE {}

\* the entries the tasks service can return for task id i
EntriesOf(i) ==
    IF gtasksRemote[i] = "gone"
    THEN {[id |-> i, deleted |-> TRUE, updated |-> u, title |-> NoneStr,
           notes |-> NoneStr, due |-> None] : u \in RemoteTimes}
    ELSE IF gtasksRemote[i] = "live"
    THEN {[id |-> i, deleted |-> FALSE, updated |-> u, title |-> t,
           notes |-> n, due |-> d] :
             u \in RemoteTimes, t \in RemoteTitles, n \in RemoteNotes, d \in {None, 1}}
    ELSE {}

\* listings of at most MaxItems items, one per remote id, in id order
RECURSIVE ListingsFrom(_, _, _)
ListingsFrom(ItemsOf(_), i, room) ==
    IF i > MaxRemote \/ room = 0 THEN {<<>>}
    ELSE ListingsFrom(ItemsOf, i + 1, room)
         \cup {<<x>> \o l : x \in ItemsOf(i), l \in ListingsFrom(ItemsOf, i + 1, room - 1)}

EventListings == ListingsFrom(EventsOf, 1, MaxItems)
EntryListings == ListingsFrom(EntriesOf, 1, MaxItems)

\* the parameters of the first events().list request of _pull_calendar:
\* the stored token, or without one timeMin = utc_now() - 90 days
calendar_list_params(token, at) ==
    IF token # None
    THEN [syncToken |-> token, timeMin |-> None]
    ELSE [syncToken |-> None, timeMin |-> at - LookbackDays * DaySeconds]

\* the argument _pull_tasks hands to gtasks.list: the stored watermark
tasks_list_request(updated_min) == [updated_min |-> updated_min]

\* _pull_calendar storing the token of a response before the pages that
\* follow it are fetched
_pull_calendar_eager(ts, q, nid, token, items, failPage, status, newToken, at) ==
    LET n == IF failPage = 0 THEN Len(items) ELSE failPage - 1
        st == ApplyEvents(PullState(ts, q, nid), items, n, at)
    IN [tasks |-> st.tasks, queue |-> st.queue, next |-> st.next,
        full |-> st.full, writes |-> st.writes,
        raised |-> failPage # 0,
        status |-> status,
        params |-> calendar_list_params(token, at),
        token |-> IF newToken # None THEN newToken ELSE token]

\* SyncService._pull_calendar.  The listing arrives as one page per item
\* and a last, empty page that carries nextSyncToken (newToken, None when
\* the response has none).  failPage = 0: every page arrives; failPage = k:
\* the request of page k raises HttpError `status`.
_pull_calendar(ts, q, nid, token, items, failPage, status, newToken, at) ==
    LET n == IF failPage = 0 THEN Len(items) ELSE failPage - 1
        st == ApplyEvents(PullState(ts, q, nid), items, n, at)
    IN [tasks |-> st.tasks, queue |-> st.queue, next |-> st.next,
        full |-> st.full, writes |-> st.writes,
        raised |-> failPage # 0,
        status |-> status,
        params |-> calendar_list_params(token, at),
        token |-> IF failPage = 0 /\ newToken # None THEN newToken ELSE token]

\* SyncService._pull_tasks.  fails: gtasks.list raises
_pull_tasks(ts, q, nid, updated_min, items, fails, at) ==
    IF fails
    THEN [tasks |-> ts, queue |-> q, next |-> nid, full |-> FALSE, writes |-> 0,
          raised |-> TRUE, request |-> tasks_list_request(updated_min),
          updated_min |-> updated_min]
    ELSE LET n == Len(items)
             st == ApplyEntries(PullState(ts, q, nid), items, n, at)
             latest_remote == LatestRemote(updated_min, items, n)
         IN [tasks |-> st.tasks, queue |-> st.queue, next |-> st.next,
             full |-> st.full, writes |-> st.writes, raised |-> FALSE,
             request |-> tasks_list_request(updated_min),
             updated_min |-> IF n > 0 /\ latest_remote # None
                             THEN latest_remote ELSE updated_min]

\* SyncService.pull_all when neither pass raises: _pull_calendar, then
\* _pull_tasks
pull_all(ts, q, nid, events, entries, at) ==
    LET c == _pull_calendar(ts, q, nid, None, events, 0, 200, None, at)
        t == _pull_tasks(c.tasks, c.queue, c.next, None, entries, FALSE, at)
    IN [tasks |-> t.tasks, queue |-> t.queue, next |-> t.next,
        full |-> c.full \/ t.full, writes |-> c.writes + t.writes]

\* the failures the calendar listing can answer with
CalendarFailure(token, items, failPage, status) ==
    IF failPage = 0 THEN status = 200
    ELSE /\ failPage <= Len(items) + 1
         /\ status \in {410, 500}
         /\ status = 410 => (failPage = 1 /\ token # None)

\* SyncService.pull_all, first half: _pull_calendar; on HttpError 410 the
\* token is reset and _pull_calendar runs once more (retry = TRUE is that
\* second run, whose errors propagate)
PullCalendarPass(items, failPage, status, newToken, retry) ==
    /\ pc = IF retry THEN "cal_retry" ELSE "idle"
    /\ CalendarFailure(calToken, items, failPage, status)
    /\ LET r == _pull_calendar(tasks, queue, nextTaskId, calToken, items,
                               failPage, status, newToken, now)
           expired == r.raised /\ r.status = 410 /\ ~retry
       IN /\ ~r.full
          /\ Len(r.queue) <= MaxQueue
          /\ tasks' = r.tasks
          /\ queue' = r.queue
          /\ nextTaskId' = r.next
          /\ calToken' = IF expired THEN None ELSE r.token
          /\ pc' = IF ~r.raised THEN "tasks"
                   ELSE IF expired THEN "cal_retry"
                   ELSE "idle"
    /\ UNCHANGED <<now, tasksUpdatedMin, gcalRemote, gtasksRemote>>
    /\ UNCHANGED otherEngines

\* SyncService.pull_all, second half: _pull_tasks
PullTasksPass(items, fails) ==
    /\ pc = "tasks"
    /\ fails => items = <<>>
    /\ LET r == _pull_tasks(tasks, queue, nextTaskId, tasksUpdatedMin, items,
                            fails, now)
       IN /\ ~r.full
          /\ Len(r.queue) <= MaxQueue
          /\ tasks' = r.tasks
          /\ queue' = r.queue
          /\ nextTaskId' = r.next
          /\ tasksUpdatedMin' = r.updated_min
    /\ pc' = "idle"
    /\ UNCHANGED <<now, calToken, gcalRemote, gtasksRemote>>
    /\ UNCHANGED otherEngines

\* how the remote answers one run of _pull_calendar: the listing, the page
\* whose request raises (0: none), the status raised, the token of the
\* last response
CalendarAnswers ==
    {a \in [items : EventListings, failPage : 0..(MaxItems + 1),
             status : {200, 410, 500}, newToken : Tokens \cup {None}] :
        /\ a.failPage <= Len(a.items) + 1
        /\ (a.failPage = 0) = (a.status = 200)
        /\ a.failPage # 0 => a.newToken = None}

\* the calendar half of pull_all with the token kept over the retry
pull_all_calendar_stale(ts, q, nid, token, first, second, at) ==
    LET a == _pull_calendar(ts, q, nid, token, first.items, first.failPage,
                            first.status, first.newToken, at)
        b == _pull_calendar(a.tasks, a.queue, a.next, a.token, second.items,
                            second.failPage, second.status, second.newToken, at)
    IN IF ~a.raised \/ a.status # 410
       THEN [tasks |-> a.tasks, queue |-> a.queue, next |-> a.next,
             full |-> a.full, token |-> a.token, raised |-> a.raised,
             status |-> a.status, passes |-> 1, resets |-> 0,
             requests |-> <<a.params>>]
       ELSE [tasks |-> b.tasks, queue |-> b.queue, next |-> b.next,
             full |-> a.full \/ b.full, token |-> b.token, raised |-> b.raised,
             status |-> b.status, passes |-> 2, resets |-> 0,
             requests |-> <<a.params, b.params>>]

\* SyncService.pull_all, the calendar half as one function: _pull_calendar
\* answered `first`; on HttpError 410 reset_calendar_sync_token and
\* _pull_calendar once more, answered `second`, outside the try block.
\* passes counts the runs of _pull_calendar, resets the cleared tokens,
\* requests lists the parameters of the first request of each run.
pull_all_calendar(ts, q, nid, token, first, second, at) ==
    LET a == _pull_calendar(ts, q, nid, token, first.items, first.failPage,
                            first.status, first.newToken, at)
        b == _pull_calendar(a.tasks, a.queue, a.next, None, second.items,
                            second.failPage, second.status, second.newToken, at)
    IN IF ~a.raised \/ a.status # 410
       THEN [tasks |-> a.tasks, queue |-> a.queue, next |-> a.next,
             full |-> a.full, token |-> a.token, raised |-> a.raised,
             status |-> a.status, passes |-> 1, resets |-> 0,
             requests |-> <<a.params>>]
       ELSE [tasks |-> b.tasks, queue |-> b.queue, next |-> b.next,
             full |-> a.full \/ b.full, token |-> b.token, raised |-> b.raised,
             status |-> b.status, passes |-> 2, resets |-> 1,
             requests |-> <<a.params, b.params>>]

\* SyncService.force_full_resync when no request raises: tokens.clear_all(),
\* then pull_all, whose two passes read their cursors from the cleared file
force_full_resync(ts, q, nid, f, events, newToken, entries, at) ==
    LET cleared == clear_all(f).file
        c == _pull_calendar(ts, q, nid, get_calendar_token(cleared).value,
                            events, 0, 200, newToken, at)
        t == _pull_tasks(c.tasks, c.queue, c.next,
                         get_tasks_updated_min(cleared).value, entries, FALSE, at)
    IN [tasks |-> t.tasks, queue |-> t.queue, next |-> t.next,
        full |-> c.full \/ t.full, file |-> cleared,
        params |-> c.params, request |-> t.request,
        token |-> c.token, updated_min |-> t.updated_min]

ForceFullResync(events, newToken, entries) ==
    /\ pc = "idle"
    /\ LET r == force_full_resync(tasks, queue, nextTaskId, tokenFile, events,
                                  newToken, entries, now)
       IN /\ ~r.full
          /\ Len(r.queue) <= MaxQueue
          /\ tasks' = r.tasks
          /\ queue' = r.queue
          /\ nextTaskId' = r.next
          /\ calToken' = r.token
          /\ tasksUpdatedMin' = r.updated_min
          /\ tokenFile' = r.file
    /\ UNCHANGED <<now, gcalRemote, gtasksRemote, pc, mappings, index, bridge,
                   store, lastPush, remoteTasks,
                   localWon, eventBody, appdata, eventMarker, shell, tasksPull>>

\* ---------------------------------------------- the remote, edited by others
\* someone creates an event or a task directly in the remote service
RemoteCreate(backend, i) ==
    /\ pc = "idle"
    /\ IF backend = "gcal"
       THEN /\ gcalRemote[i] = "free"
            /\ \A j \in 1..(i - 1) : gcalRemote[j] # "free"
            /\ gcalRemote' = [gcalRemote EXCEPT ![i] = "live"]
            /\ UNCHANGED gtasksRemote
       ELSE /\ gtasksRemote[i] = "free"
            /\ \A j \in 1..(i - 1) : gtasksRemote[j] # "free"
            /\ gtasksRemote' = [gtasksRemote EXCEPT ![i] = "live"]
            /\ UNCHANGED gcalRemote
    /\ UNCHANGED <<tasks, nextTaskId, queue, now, calToken, tasksUpdatedMin, pc>>
    /\ UNCHANGED otherEngines

\* someone deletes an event or a task directly in the remote service
RemoteDelete(backend, i) ==
    /\ pc = "idle"
    /\ IF backend = "gcal"
       THEN /\ gcalRemote[i] = "live"
            /\ gcalRemote' = [gcalRemote EXCEPT ![i] = "gone"]
            /\ UNCHANGED gtasksRemote
       ELSE /\ gtasksRemote[i] = "live"
            /\ gtasksRemote' = [gtasksRemote EXCEPT ![i] = "gone"]
            /\ UNCHANGED gcalRemote
    /\ UNCHANGED <<tasks, nextTaskId, queue, now, calToken, tasksUpdatedMin, pc>>
    /\ UNCHANGED otherEngines

\* ------------------------------------------------------------ push side
\* How the remote treats the one call an operation makes: 200 (it serves
\* the call), an HttpError status, or NoService (the calendar client has no
\* service object / the tasks client raises something that is no HttpError)
NoService == 0
Outcomes == {200, 400, 503, NoService}
\* the two kinds of answer that matter to the pull side: served or not
Served == {200, 503}

ErrText(status) ==
    IF status = NoService THEN "Exception" ELSE "HttpError"

FreeIds(remote) == {i \in DOMAIN remote : remote[i] = "free"}

\* the answer to a patch or a delete of entity id: the failure, or 404 when
\* the remote has no such entity
Answer(remote, id, out) ==
    IF out # 200 THEN out ELSE IF remote[id] # "live" THEN 404 ELSE 200

\* one remote call, as the worker pass records it
Call(api, id, t) ==
    [api |-> api, task_id |-> id, start |-> t.start,
     duration_minutes |-> t.duration_minutes]

DeleteCall(api, id) ==
    [api |-> api, task_id |-> id, start |-> None, duration_minutes |-> None]

\* what _execute_op hands back: res is "true", "false" or "raise"
Done(st) == [st EXCEPT !.res = "true"]
Failed(st) == [st EXCEPT !.res = "false"]
Raise(st, status) == [st EXCEPT !.res = "raise", !.status = status]

\* _execute_op, op == "gcal_create"
_execute_op_gcal_create(entry, st, out, at) ==
    LET id == entry.task_id
        task == st.tasks[id]
    IN IF id \notin DOMAIN st.tasks \/ ~_is_scheduled(task) THEN Done(st)
       ELSE IF out = NoService THEN Failed(st)
       ELSE LET called == [st EXCEPT !.calls = Append(@, Call("gcal.insert", id, task))]
            IN IF out # 200 THEN Raise(called, out)
               ELSE IF FreeIds(st.gcal) = {} THEN [st EXCEPT !.full = TRUE]
               ELSE LET eid == Min(FreeIds(st.gcal))
                    IN Done([called EXCEPT
                         !.gcal = [@ EXCEPT ![eid] = "live"],
                         !.tasks = update_from_sync(st.tasks, id,
                                      [gcal_event_id |-> eid, gcal_updated |-> at],
                                      at, at)])

\* _execute_op, op == "gcal_update"
_execute_op_gcal_update(entry, st, out, at) ==
    LET id == entry.task_id
        task == st.tasks[id]
    IN IF id \notin DOMAIN st.tasks \/ ~_is_scheduled(task) THEN Done(st)
       ELSE LET eid == IF entry.payload # None THEN entry.payload
                       ELSE task.gcal_event_id
            IN IF eid = None THEN Done(st)
               ELSE IF out = NoService THEN Failed(st)
               ELSE LET called == [st EXCEPT
                                     !.calls = Append(@, Call("gcal.patch", id, task))]
                        ans == Answer(st.gcal, eid, out)
                    IN IF ans # 200 THEN Raise(called, ans)
                       ELSE Done([called EXCEPT
                              !.tasks = update_from_sync(st.tasks, id,
                                           [gcal_event_id |-> eid, gcal_updated |-> at],
                                           at, at)])

\* gcal_delete without the exemption of the not-found answer
_execute_op_gcal_delete_strict(entry, st, out, at) ==
    LET id == entry.task_id
        has == id \in DOMAIN st.tasks
        eid == IF entry.payload = None /\ has THEN st.tasks[id].gcal_event_id
               ELSE entry.payload
    IN IF eid = None THEN Done(st)
       ELSE IF out = NoService THEN Failed(st)
       ELSE LET called == [st EXCEPT
                             !.calls = Append(@, DeleteCall("gcal.delete", id))]
                ans == Answer(st.gcal, eid, out)
            IN IF ans # 200 THEN Raise(called, ans)
               ELSE Done([called EXCEPT
                      !.gcal = [@ EXCEPT ![eid] = "gone"],
                      !.tasks = IF has
                                THEN update_from_sync(st.tasks, id,
                                        [gcal_event_id |-> None, gcal_updated |-> at],
                                        None, at)
                                ELSE st.tasks])

\* _execute_op, op == "gcal_delete"
_execute_op_gcal_delete(entry, st, out, at) ==
    LET id == entry.task_id
        has == id \in DOMAIN st.tasks
        eid == IF entry.payload = None /\ has THEN st.tasks[id].gcal_event_id
               ELSE entry.payload
    IN IF eid = None THEN Done(st)
       ELSE IF out = NoService THEN Failed(st)
       ELSE LET called == [st EXCEPT
                             !.calls = Append(@, DeleteCall("gcal.delete", id))]
                ans == Answer(st.gcal, eid, out)
            IN IF ans \notin {200, 404} THEN Raise(called, ans)
               ELSE Done([called EXCEPT
                      !.gcal = IF ans = 200 THEN [@ EXCEPT ![eid] = "gone"] ELSE @,
                      !.tasks = IF has
                                THEN update_from_sync(st.tasks, id,
                                        [gcal_event_id |-> None, gcal_updated |-> at],
                                        None, at)
                                ELSE st.tasks])

\* _execute_op, op == "gtasks_create"
_execute_op_gtasks_create(entry, st, out, at) ==
    LET id == entry.task_id
        task == st.tasks[id]
    IN IF id \notin DOMAIN st.tasks \/ _is_scheduled(task) THEN Done(st)
       ELSE IF out = NoService THEN Raise(st, NoService)
       ELSE LET called == [st EXCEPT
                             !.calls = Append(@, Call("gtasks.insert", id, task))]
            IN IF out # 200 THEN Raise(called, out)
               ELSE IF FreeIds(st.gtasks) = {} THEN [st EXCEPT !.full = TRUE]
               ELSE LET gid == Min(FreeIds(st.gtasks))
                    IN Done([called EXCEPT
                         !.gtasks = [@ EXCEPT ![gid] = "live"],
                         !.tasks = update_from_sync(st.tasks, id,
                                      [gtasks_id |-> gid, gtasks_updated |-> at],
                                      at, at)])

\* _execute_op, op == "gtasks_update"
_execute_op_gtasks_update(entry, st, out, at) ==
    LET id == entry.task_id
        task == st.tasks[id]
    IN IF id \notin DOMAIN st.tasks THEN Done(st)
       ELSE LET gid == IF entry.payload # None THEN entry.payload
                       ELSE task.gtasks_id
            IN IF gid = None THEN Done(st)
               ELSE IF out = NoService THEN Raise(st, NoService)
               ELSE LET called == [st EXCEPT
                                     !.calls = Append(@, Call("gtasks.patch", id, task))]
                        ans == Answer(st.gtasks, gid, out)
                    IN IF ans # 200 THEN Raise(called, ans)
                       ELSE Done([called EXCEPT
                              !.tasks = update_from_sync(st.tasks, id,
                                           [gtasks_id |-> gid, gtasks_updated |-> at],
                                           None, at)])

\* _execute_op, op == "gtasks_delete"
_execute_op_gtasks_delete(entry, st, out, at) ==
    LET id == entry.task_id
        has == id \in DOMAIN st.tasks
        gid == IF entry.payload = None /\ has THEN st.tasks[id].gtasks_id
               ELSE entry.payload
    IN IF gid = None THEN Done(st)
       ELSE IF out = NoService THEN Raise(st, NoService)
       ELSE LET called == [st EXCEPT
                             !.calls = Append(@, DeleteCall("gtasks.delete", id))]
                ans == Answer(st.gtasks, gid, out)
            IN IF ans \notin {200, 404} THEN Raise(called, ans)
               ELSE Done([called EXCEPT
                      !.gtasks = IF ans = 200 THEN [@ EXCEPT ![gid] = "gone"] ELSE @,
                      !.tasks = IF has
                                THEN update_from_sync(st.tasks, id,
                                        [gtasks_id |-> None, gtasks_updated |-> at],
                                        None, at)
                                ELSE st.tasks])

\* SyncService._execute_op; st carries the Task table, both remotes and the
\* calls made so far, out is how the remote treats this operation's call
_execute_op(entry, st, out, at) ==
    IF entry.op = "gcal_create" THEN _execute_op_gcal_create(entry, st, out, at)
    ELSE IF entry.op = "gcal_update" THEN _execute_op_gcal_update(entry, st, out, at)
    ELSE IF entry.op = "gcal_delete" THEN _execute_op_gcal_delete(entry, st, out, at)
    ELSE IF entry.op = "gtasks_create" THEN _execute_op_gtasks_create(entry, st, out, at)
    ELSE IF entry.op = "gtasks_update" THEN _execute_op_gtasks_update(entry, st, out, at)
    ELSE IF entry.op = "gtasks_delete" THEN _execute_op_gtasks_delete(entry, st, out, at)
    ELSE Failed(st)

\* the due rows in insertion order
RECURSIVE Ascending(_)
Ascending(S) ==
    IF S = {} THEN <<>> ELSE <<Min(S)>> \o Ascending(S \ {Min(S)})

due_fifo(q, at, limit) ==
    LET all == Ascending({i \in 1..Len(q) : q[i].next_try_at <= at})
    IN IF Len(all) <= limit THEN all ELSE SubSeq(all, 1, limit)

\* PendingOpsQueue.due: the positions of the rows with next_try_at <= now,
\* ascending by next_try_at (rows of equal next_try_at in insertion order),
\* at most `limit` of them
RECURSIVE SortDue(_, _)
SortDue(q, S) ==
    IF S = {} THEN <<>>
    ELSE LET first == CHOOSE i \in S : \A j \in S :
                         \/ q[i].next_try_at < q[j].next_try_at
                         \/ (q[i].next_try_at = q[j].next_try_at /\ i <= j)
         IN <<first>> \o SortDue(q, S \ {first})

due(q, at, limit) ==
    LET all == SortDue(q, {i \in 1..Len(q) : q[i].next_try_at <= at})
    IN IF Len(all) <= limit THEN all ELSE SubSeq(all, 1, limit)

\* the state a worker pass threads through the due rows: the Task table,
\* the rows, the removed positions, what each executed row returned, both
\* remotes and the calls made
WorkerState(ts, q, gcal, gtasks) ==
    [tasks |-> ts, rows |-> q, removed |-> {}, processed |-> 0,
     results |-> [i \in 1..Len(q) |-> "none"],
     gcal |-> gcal, gtasks |-> gtasks, calls |-> <<>>,
     res |-> "none", status |-> 200, full |-> FALSE]

\* the body of the loop with a row that returned false taken off the queue
WorkerStep_dropping(st, i, out, at) ==
    LET r == _execute_op(st.rows[i], [st EXCEPT !.res = "none"], out, at)
    IN IF r.full THEN r
       ELSE IF r.res \in {"true", "false"}
       THEN [r EXCEPT !.removed = @ \cup {i}, !.processed = @ + 1,
                      !.results[i] = r.res]
       ELSE [r EXCEPT !.rows[i] = requeue(@, ErrText(r.status), at),
                      !.results[i] = "raise"]

\* the body of the loop of push_queue_worker for the row at position i
WorkerStep(st, i, out, at) ==
    LET r == _execute_op(st.rows[i], [st EXCEPT !.res = "none"], out, at)
    IN IF r.full THEN r
       ELSE IF r.res = "true"
       THEN [r EXCEPT !.removed = @ \cup {i}, !.processed = @ + 1,
                      !.results[i] = "true"]
       ELSE IF r.res = "false"
       THEN [r EXCEPT !.rows[i] = requeue(@, "invalid payload", at),
                      !.results[i] = "false"]
       ELSE [r EXCEPT !.rows[i] = requeue(@, ErrText(r.status), at),
                      !.results[i] = "raise"]

RECURSIVE WorkerLoop(_, _, _, _, _)
WorkerLoop(st, order, n, outs, at) ==
    IF n = 0 THEN st
    ELSE WorkerStep(WorkerLoop(st, order, n - 1, outs, at), order[n], outs[n], at)

\* SyncService.push_queue_worker as a function of the state and of the
\* remote's treatment outs[k] of the k-th due operation
push_queue_worker(ts, q, gcal, gtasks, outs, at) ==
    LET order == due(q, at, DueLimit)
    IN WorkerLoop(WorkerState(ts, q, gcal, gtasks), order, Len(order), outs, at)

\* the PendingOp table after the pass: the rows that were not removed
RECURSIVE Compact(_, _, _)
Compact(rows, removed, n) ==
    IF n = 0 THEN <<>>
    ELSE IF n \in removed THEN Compact(rows, removed, n - 1)
    ELSE Append(Compact(rows, removed, n - 1), rows[n])

PushQueueWorker(outs) ==
    /\ pc = "idle"
    /\ Len(outs) = Len(due(queue, now, DueLimit))
    /\ LET r == push_queue_worker(tasks, queue, gcalRemote, gtasksRemote, outs, now)
       IN /\ ~r.full
          /\ tasks' = r.tasks
          /\ queue' = Compact(r.rows, r.removed, Len(queue))
          /\ gcalRemote' = r.gcal
          /\ gtasksRemote' = r.gtasks
    /\ UNCHANGED <<nextTaskId, now, calToken, tasksUpdatedMin, pc>>
    /\ UNCHANGED otherEngines

\* the clock advances
Tick ==
    /\ now + 2 <= StartTime + 2 * MaxTicks
    /\ now' = now + 2
    /\ UNCHANGED <<tasks, nextTaskId, queue, calToken, tasksUpdatedMin,
                   gcalRemote, gtasksRemote, pc>>
    /\ UNCHANGED otherEngines

\* the engine: local edits, pull_all, the queue worker against a remote
\* that serves or refuses each call, edits made by others in the remote
Next ==
    \/ \E title \in LocalTitles, s \in Schedules :
          LocalAdd(title, s[1], s[2], MaxQueue)
    \/ \E id \in TaskIds, title \in LocalTitles, s \in Schedules :
          LocalUpdate(id, title, s[1], s[2], MaxQueue)
    \/ \E id \in TaskIds : LocalDelete(id, MaxQueue)
    \/ \E items \in EventListings, failPage \in 0..(MaxItems + 1),
          status \in {200, 410, 500}, newToken \in Tokens \cup {None},
          retry \in BOOLEAN :
          PullCalendarPass(items, failPage, status, newToken, retry)
    \/ \E items \in EntryListings, fails \in BOOLEAN : PullTasksPass(items, fails)
    \/ \E backend \in {"gcal", "gtasks"}, i \in RemoteIds : RemoteCreate(backend, i)
    \/ \E backend \in {"gcal", "gtasks"}, i \in RemoteIds : RemoteDelete(backend, i)
    \/ \E n \in 0..MaxQueue : \E outs \in [1..n -> Served] : PushQueueWorker(outs)
    \/ Tick

Spec == Init /\ [][Next]_vars

\* the push side alone, with a longer queue and every kind of failure:
\* local edits, the queue worker, deletions made by others in the remote
NextPush ==
    \/ \E title \in LocalTitles, s \in Schedules :
          LocalAdd(title, s[1], s[2], MaxBacklog)
    \/ \E id \in TaskIds, title \in LocalTitles, s \in Schedules :
          LocalUpdate(id, title, s[1], s[2], MaxBacklog)
    \/ \E id \in TaskIds : LocalDelete(id, MaxBacklog)
    \/ \E backend \in {"gcal", "gtasks"}, i \in RemoteIds : RemoteDelete(backend, i)
    \/ \E n \in 0..MaxBacklog : \E outs \in [1..n -> Outcomes] : PushQueueWorker(outs)
    \/ Tick

SpecPush == Init /\ [][NextPush]_vars

\* local edits whose hooks may fail, beside a worker that is always served
NextLocal ==
    \/ \E title \in LocalTitles, s \in Schedules, fail_at \in HookFailures :
          CrudAdd(title, s[1], s[2], fail_at)
    \/ \E id \in TaskIds, title \in LocalTitles, s \in Schedules,
          fail_at \in HookFailures : CrudUpdate(id, title, s[1], s[2], fail_at)
    \/ \E id \in TaskIds, fail_at \in HookFailures : CrudDelete(id, fail_at)
    \/ \E n \in 0..MaxQueue : \E outs \in [1..n -> {200}] : PushQueueWorker(outs)
    \/ Tick

SpecLocal == Init /\ [][NextLocal]_vars

\* the pull side alone: local edits, pull_all, edits made by others in the
\* remote; nothing is pushed
NextPull ==
    \/ \E title \in LocalTitles, s \in Schedules :
          LocalAdd(title, s[1], s[2], MaxQueue)
    \/ \E id \in TaskIds, title \in LocalTitles, s \in Schedules :
          LocalUpdate(id, title, s[1], s[2], MaxQueue)
    \/ \E items \in EventListings, failPage \in 0..(MaxItems + 1),
          status \in {200, 410, 500}, newToken \in Tokens \cup {None},
          retry \in BOOLEAN :
          PullCalendarPass(items, failPage, status, newToken, retry)
    \/ \E items \in EntryListings, fails \in BOOLEAN : PullTasksPass(items, fails)
    \/ \E events \in EventListings, newToken \in Tokens \cup {None},
          entries \in EntryListings : ForceFullResync(events, newToken, entries)
    \/ \E backend \in {"gcal", "gtasks"}, i \in RemoteIds : RemoteCreate(backend, i)
    \/ \E backend \in {"gcal", "gtasks"}, i \in RemoteIds : RemoteDelete(backend, i)
    \/ Tick

SpecPull == Init /\ [][NextPull]_vars


\* ------------------------------------------------------ UndatedTasksSync
\* The engine of services/undated_tasks_sync.py: tasks without a start are
\* mirrored to one remote task list through GoogleTasksBridge, and their
\* priority and status travel in a metadata index kept in the application
\* data folder.  It uses the Task table, the clock and the remote task list
\* above, the SyncMapUndated table and the index.
DEFAULT_PRIORITY == 0
MaxPriority == 3
\* device ids, numbered in the order of their strings; the engine runs on
\* LocalDevice
DeviceIds == 1..2
LocalDevice == 1

\* str.lower() on the status words that occur
Lower(s) == IF s = "needsAction" THEN "needsaction" ELSE s

_normalise_status(value, fallback) ==
    IF value = NoneStr THEN fallback
    ELSE LET lowered == Lower(value)
         IN  IF lowered \in {"todo", "doing", "done"} THEN lowered
             ELSE IF lowered \in {"completed", "complete", "finished"} THEN "done"
             ELSE IF lowered \in {"needsaction", "needs_action"} THEN "todo"
             ELSE fallback

normalize_priority(value) ==
    IF value < 0 THEN 0 ELSE IF value > MaxPriority THEN MaxPriority ELSE value

_normalise_priority(value) ==
    IF value = None THEN DEFAULT_PRIORITY ELSE normalize_priority(value)

_status_from_google(value) ==
    IF Lower(value) = "completed" THEN "done" ELSE "todo"

\* a metadata entry; an absent key is None (NoneStr for the status)
MetaEntry(task_id, priority, status, updated_at, device_id) ==
    [task_id |-> task_id, priority |-> priority, status |-> status,
     updated_at |-> updated_at, device_id |-> device_id]

\* the metadata of an item that carries none
NoMeta == MetaEntry(None, None, NoneStr, None, None)

_ensure_index_entry(idx, gtask_id, at, device) ==
    IF gtask_id \in DOMAIN idx THEN idx
    ELSE (gtask_id :> MetaEntry(None, DEFAULT_PRIORITY, "todo", at, device)) @@ idx

_merge_detected_meta(entry, detected, item, at, device) ==
    LET merged == MetaEntry(
            IF detected.task_id # None THEN detected.task_id ELSE entry.task_id,
            IF detected.priority # None THEN detected.priority ELSE entry.priority,
            IF detected.status # NoneStr THEN detected.status ELSE entry.status,
            IF detected.updated_at # None THEN detected.updated_at ELSE entry.updated_at,
            IF detected.device_id # None THEN detected.device_id ELSE entry.device_id)
        changed == merged # entry
        stamp == IF detected.updated_at # None THEN detected.updated_at
                 ELSE IF item.updated # None THEN item.updated ELSE at
        owner == IF detected.device_id # None THEN detected.device_id ELSE device
    IN  IF ~changed THEN entry
        ELSE [merged EXCEPT
                !.updated_at = IF @ = None THEN stamp ELSE @,
                !.device_id = IF @ = None THEN owner ELSE @]

_normalise_meta(entry, at, device) ==
    MetaEntry(entry.task_id,
              _normalise_priority(entry.priority),
              _normalise_status(entry.status, "todo"),
              IF entry.updated_at = None THEN at ELSE entry.updated_at,
              IF entry.device_id = None THEN device ELSE entry.device_id)

\* the entry kept when the device's own entry meets the stored one.  An
\* entry that is None is the empty sequence, an entry e is <<e>>; at and
\* later are the two successive readings of the clock that fill an absent
\* updated_at of the local and of the remote entry
_resolve_meta_entry(local_entry, remote_entry, at, later, device) ==
    IF local_entry = <<>> /\ remote_entry = <<>> THEN <<>>
    ELSE IF local_entry = <<>> THEN <<_normalise_meta(remote_entry[1], at, device)>>
    ELSE IF remote_entry = <<>> THEN <<_normalise_meta(local_entry[1], at, device)>>
    ELSE LET local_norm == _normalise_meta(local_entry[1], at, device)
             remote_norm == _normalise_meta(remote_entry[1], later, device)
         IN  IF local_norm.updated_at > remote_norm.updated_at THEN <<local_norm>>
             ELSE IF remote_norm.updated_at > local_norm.updated_at THEN <<remote_norm>>
             ELSE IF local_norm.device_id > remote_norm.device_id THEN <<local_norm>>
             ELSE IF remote_norm.device_id > local_norm.device_id THEN <<remote_norm>>
             ELSE <<local_norm>>

_merge_index_payload(remote_tasks, local_tasks, at, later, device) ==
    [g \in (DOMAIN remote_tasks) \cup (DOMAIN local_tasks) |->
        IF g \in DOMAIN local_tasks
        THEN _resolve_meta_entry(
                 <<local_tasks[g]>>,
                 IF g \in DOMAIN remote_tasks THEN <<remote_tasks[g]>> ELSE <<>>,
                 at, later, device)[1]
        ELSE remote_tasks[g]]

\* write_index: the stored index is replaced, or, when the store answers
\* 412 because another device wrote meanwhile (answer.conflict, with
\* answer.tasks what that device stored), merged with it and written again
_persist_index_if_dirty(idx, dirty, answer, at, later, device) ==
    IF ~dirty THEN idx
    ELSE IF ~answer.conflict THEN idx
    ELSE _merge_index_payload(answer.tasks, idx, at, later, device)

\* mappings.get(gtask_id): the task id of the mapping row of a remote task
by_gtask(mp, gtask_id) ==
    LET rows == {i \in DOMAIN mp : mp[i].gtask_id = gtask_id}
    IN  IF rows = {} THEN None ELSE Min(rows)

_load_task(ts, task_id) ==
    IF task_id # None /\ task_id \in DOMAIN ts THEN task_id ELSE None

_create_local_task_from_remote(item, entry, at) ==
    [NewTask(item.title, item.notes, None, None, at)
        EXCEPT !.status = _normalise_status(entry.status,
                                            _status_from_google(item.status)),
               !.priority = _normalise_priority(entry.priority)]

_apply_remote_payload(task, item, at) ==
    LET should_update == IF item.updated # None /\ task.updated_at # None
                         THEN item.updated >= task.updated_at ELSE TRUE
        a == IF task.title # item.title THEN [task EXCEPT !.title = item.title]
             ELSE task
        b == IF a.notes # item.notes THEN [a EXCEPT !.notes = item.notes] ELSE a
    IN  IF should_update /\ b # task THEN [b EXCEPT !.updated_at = at] ELSE task

_apply_meta_to_task(task, entry, item, at) ==
    LET remote_status == _status_from_google(item.status)
        status == IF remote_status = "done" THEN "done"
                  ELSE _normalise_status(entry.status, remote_status)
        final == IF /\ remote_status # "done"
                    /\ status = "done"
                    /\ item.updated # None
                    /\ entry.updated_at # None
                    /\ item.updated > entry.updated_at
                 THEN remote_status ELSE status
        priority == _normalise_priority(entry.priority)
        a == IF task.status # final THEN [task EXCEPT !.status = final] ELSE task
        b == IF a.priority # priority THEN [a EXCEPT !.priority = priority] ELSE a
    IN  IF b # task THEN [b EXCEPT !.updated_at = at] ELSE task

\* one item of the listing, inside the session of pull.  A new mapping row
\* for a task that already has one breaks the primary key: the session
\* raises and nothing of the pass is committed
UndatedApplyItem(st, item, at, device) ==
    IF st.raised \/ st.full THEN st
    ELSE
    LET idx1 == _ensure_index_entry(st.index, item.id, at, device)
        entry == _merge_detected_meta(idx1[item.id], item.detected_meta,
                                      item, at, device)
        mid == by_gtask(st.mappings, item.id)
        t1 == IF mid # None THEN _load_task(st.tasks, mid) ELSE None
        t2 == IF t1 = None THEN _load_task(st.tasks, entry.task_id) ELSE t1
        touched == (item.id \notin DOMAIN st.index) \/ entry # idx1[item.id]
    IN  IF t2 = None
        THEN IF st.next > MaxTasks THEN [st EXCEPT !.full = TRUE]
             ELSE LET row == _apply_meta_to_task(
                                 _create_local_task_from_remote(item, entry, at),
                                 entry, item, at)
                  IN  [st EXCEPT
                         !.tasks = (st.next :> row) @@ st.tasks,
                         !.next = st.next + 1,
                         !.mappings = (st.next :> [gtask_id |-> item.id,
                                                   dirty_flag |-> 0]) @@ st.mappings,
                         !.index = [idx1 EXCEPT ![item.id] =
                                       [entry EXCEPT !.task_id = st.next]],
                         !.index_dirty = st.index_dirty \/ touched
                                            \/ entry.task_id # st.next,
                         !.changed = TRUE]
        ELSE IF mid = None /\ t2 \in DOMAIN st.mappings
        THEN [st EXCEPT !.raised = TRUE, !.index = [idx1 EXCEPT ![item.id] = entry],
                        !.index_dirty = st.index_dirty \/ touched]
        ELSE LET dirty == IF mid # None THEN st.mappings[mid].dirty_flag ELSE 0
                 mp == IF mid = None
                       THEN (t2 :> [gtask_id |-> item.id, dirty_flag |-> 0])
                                @@ st.mappings
                       ELSE st.mappings
                 a == IF dirty = 0
                      THEN _apply_remote_payload(st.tasks[t2], item, at)
                      ELSE st.tasks[t2]
                 b == _apply_meta_to_task(a, entry, item, at)
             IN  [st EXCEPT
                    !.tasks = [st.tasks EXCEPT ![t2] = b],
                    !.mappings = mp,
                    !.index = [idx1 EXCEPT ![item.id] =
                                  [entry EXCEPT !.task_id = t2]],
                    !.index_dirty = st.index_dirty \/ touched
                                       \/ entry.task_id # t2,
                    !.changed = st.changed \/ mid = None \/ b # st.tasks[t2]]

RECURSIVE UndatedApplyItems(_, _, _, _)
UndatedApplyItems(st, items, at, device) ==
    IF items = <<>> THEN st
    ELSE UndatedApplyItems(UndatedApplyItem(st, Head(items), at, device),
                           Tail(items), at, device)

\* UndatedTasksSync.pull: fetch_all raises (fails) or lists items; answer
\* is what the index store says when the index is written back
undated_pull(ts, nid, mp, idx, items, fails, answer, at, later, device) ==
    LET st0 == [tasks |-> ts, next |-> nid, mappings |-> mp, index |-> idx,
                index_dirty |-> FALSE, changed |-> FALSE, raised |-> FALSE,
                full |-> FALSE]
        st == UndatedApplyItems(st0, items, at, device)
    IN  IF fails THEN st0
        ELSE IF st.raised
        THEN [st0 EXCEPT !.raised = TRUE, !.index = st.index,
                         !.index_dirty = st.index_dirty]
        ELSE [st EXCEPT !.index = _persist_index_if_dirty(
                            st.index, st.index_dirty, answer, at, later, device),
                        !.index_dirty = FALSE]

\* tasks_bridge._status_payload: the remote status of a row and, for a row
\* that is done, its completion time: the row's updated_at, else the clock
_status_payload(local_task, at) ==
    IF Lower(local_task.status) = "done"
    THEN [status |-> "completed",
          completed |-> IF local_task.updated_at # None
                        THEN local_task.updated_at ELSE at]
    ELSE [status |-> "needsAction", completed |-> None]

\* the body upsert_task sends for a row it accepts
upsert_body(local_task, at) ==
    [title |-> local_task.title, notes |-> local_task.notes,
     status |-> _status_payload(local_task, at).status,
     completed |-> _status_payload(local_task, at).completed]

\* GoogleTasksBridge.upsert_task: the task row sent must carry its task_id
\* (None = absent); out is how the remote treats the call
upsert_task(local_task, remote, out) ==
    IF local_task.task_id = None
    THEN [raised |-> TRUE, id |-> None, remote |-> remote, calls |-> <<>>]
    ELSE IF local_task.gtask_id # None
    THEN [raised |-> out # 200, id |-> IF out = 200 THEN local_task.gtask_id ELSE None,
          remote |-> remote, calls |-> <<"update">>]
    ELSE IF out # 200 \/ FreeIds(remote) = {}
    THEN [raised |-> TRUE, id |-> None, remote |-> remote, calls |-> <<"insert">>]
    ELSE [raised |-> FALSE, id |-> Min(FreeIds(remote)),
          remote |-> [remote EXCEPT ![Min(FreeIds(remote))] = "live"],
          calls |-> <<"insert">>]

\* the bridge of the engine's own tests: upsert_task records the row and
\* answers with one fixed id, here the id after those of the remote list
Bridges == {"GoogleTasksBridge", "FakeBridge"}
StubId == MaxRemote + 1

FakeBridge_upsert_task(local_task, remote) ==
    [raised |-> FALSE, id |-> StubId, remote |-> remote, calls |-> <<>>]

\* self.bridge.upsert_task
bridge_upsert_task(b, local_task, remote, out) ==
    IF b = "FakeBridge" THEN FakeBridge_upsert_task(local_task, remote)
    ELSE upsert_task(local_task, remote, out)

\* a mapping row that stays dirty after the upsert
pushed_mapping_dirty(gtask_id) == [gtask_id |-> gtask_id, dirty_flag |-> 1]

\* the mapping row after a successful upsert
pushed_mapping(gtask_id) == [gtask_id |-> gtask_id, dirty_flag |-> 0]

\* the row push_dirty hands to the bridge
push_payload(task, mapping) ==
    [task_id |-> None, gtask_id |-> mapping.gtask_id, title |-> task.title,
     notes |-> task.notes, status |-> task.status,
     updated_at |-> task.updated_at]

\* one undated task, inside the session of push_dirty
UndatedPushTask(st, id, b, out, at, device) ==
    LET task == st.tasks[id]
        mapping == IF id \in DOMAIN st.mappings THEN st.mappings[id]
                   ELSE [gtask_id |-> None, dirty_flag |-> 1]
        res == bridge_upsert_task(b, push_payload(task, mapping), st.remote, out)
        dropped == IF mapping.gtask_id # None /\ mapping.gtask_id # res.id
                   THEN [g \in (DOMAIN st.index) \ {mapping.gtask_id} |-> st.index[g]]
                   ELSE st.index
        idx1 == _ensure_index_entry(dropped, res.id, at, device)
    IN  IF task.start # None THEN st
        ELSE IF mapping.dirty_flag = 0 /\ mapping.gtask_id # None THEN st
        ELSE IF res.raised
        THEN [st EXCEPT !.calls = st.calls \o res.calls, !.skipped = @ \cup {id}]
        ELSE [st EXCEPT
                !.remote = res.remote,
                !.calls = st.calls \o res.calls,
                !.mappings = (id :> pushed_mapping(res.id)) @@ st.mappings,
                !.returned = (id :> res.id) @@ st.returned,
                !.index = [idx1 EXCEPT ![res.id] =
                              MetaEntry(id, _normalise_priority(task.priority),
                                        _normalise_status(task.status, "todo"),
                                        at, device)],
                !.index_dirty = TRUE,
                !.changed = TRUE]

RECURSIVE UndatedPushTasks(_, _, _, _, _, _)
UndatedPushTasks(st, ids, b, outs, at, device) ==
    IF ids = {} THEN st
    ELSE LET id == Min(ids)
         IN  UndatedPushTasks(UndatedPushTask(st, id, b, outs[id], at, device),
                              ids \ {id}, b, outs, at, device)

\* UndatedTasksSync.push_dirty: outs[id] is how the remote treats the call
\* made for task id
push_dirty(ts, mp, idx, remote, b, outs, answer, at, later, device) ==
    LET st0 == [tasks |-> ts, mappings |-> mp, index |-> idx, remote |-> remote,
                index_dirty |-> FALSE, changed |-> FALSE, calls |-> <<>>,
                skipped |-> {}, returned |-> <<>>]
        st == UndatedPushTasks(st0, DOMAIN ts, b, outs, at, device)
    IN  [st EXCEPT !.index = _persist_index_if_dirty(
                       st.index, st.index_dirty, answer, at, later, device),
                   !.index_dirty = FALSE]

\* UndatedTasksSync.mark_dirty
mark_dirty(ts, mp, idx, task_id, answer, at, later, device) ==
    IF task_id \notin DOMAIN ts THEN [mappings |-> mp, index |-> idx]
    ELSE LET task == ts[task_id]
             row == IF task_id \in DOMAIN mp
                    THEN [mp[task_id] EXCEPT !.dirty_flag = 1]
                    ELSE [gtask_id |-> None, dirty_flag |-> 1]
             gid == row.gtask_id
             idx1 == IF gid = None THEN idx
                     ELSE [_ensure_index_entry(idx, gid, at, device) EXCEPT ![gid] =
                              MetaEntry(task_id,
                                        _normalise_priority(task.priority),
                                        _normalise_status(task.status, "todo"),
                                        at, device)]
         IN  [mappings |-> (task_id :> row) @@ mp,
              index |-> _persist_index_if_dirty(idx1, gid # None, answer,
                                                at, later, device)]

\* TaskService.set_status
set_status(ts, task_id, status, at) ==
    IF task_id \in DOMAIN ts
    THEN [ts EXCEPT ![task_id].status = status, ![task_id].updated_at = at]
    ELSE ts

\* what the remote task list and the index store can answer
RemoteStatuses == {"needsAction", "completed"}
DetectedMetas ==
    {NoMeta, MetaEntry(None, 2, "doing", None, None),
     MetaEntry(1, 2, "doing", StartTime + 1, 2)}

\* fetch_all: the live tasks of the list (showDeleted is False), each with
\* the title, notes, status, revision stamp and metadata it has there
ItemsOf(i) ==
    [id : {i}, title : {"R"}, notes : {NoneStr}, status : RemoteStatuses,
     updated : {None, StartTime + 1}, detected_meta : DetectedMetas]

UndatedListings ==
    LET live == {i \in RemoteIds : gtasksRemote[i] = "live"}
    IN  {<<>>} \cup UNION {{<<x>> : x \in ItemsOf(i)} : i \in live}

\* what another device may have stored in the index meanwhile
OtherEntries ==
    {MetaEntry(None, 3, "done", None, 2),
     MetaEntry(1, 1, "doing", StartTime + 1, 2)}
IndexAnswers ==
    {[conflict |-> FALSE, tasks |-> <<>>]}
      \cup {[conflict |-> TRUE, tasks |-> (g :> e)] :
               g \in RemoteIds \cup {StubId}, e \in OtherEntries}

\* the two readings of the clock inside one merge of the index
LaterReadings == {now, now + 1}

\* a task without a start is added in the interface
UndatedAdd(title) ==
    /\ pc = "idle"
    /\ nextTaskId <= MaxTasks
    /\ tasks' = add(tasks, nextTaskId, title, NoneStr, None, None, now)
    /\ nextTaskId' = nextTaskId + 1
    /\ UNCHANGED <<queue, now, calToken, tasksUpdatedMin, gcalRemote,
                   gtasksRemote, pc, mappings, index, bridge, store,
                   lastPush, remoteTasks, tokenFile, localWon, eventBody, appdata, eventMarker, shell, tasksPull>>

\* the status of an undated task is changed in the interface, which then
\* marks the task dirty
UndatedEdit(id, status, answer, later) ==
    /\ pc = "idle"
    /\ id \in DOMAIN tasks
    /\ tasks[id].start = None
    /\ LET ts == set_status(tasks, id, status, now)
           r == mark_dirty(ts, mappings, index, id, answer, now, later, LocalDevice)
       IN  /\ tasks' = ts
           /\ mappings' = r.mappings
           /\ index' = r.index
    /\ UNCHANGED <<nextTaskId, queue, now, calToken, tasksUpdatedMin, gcalRemote,
                   gtasksRemote, pc, bridge, store, lastPush,
                   remoteTasks, tokenFile, localWon, eventBody, appdata, eventMarker, shell, tasksPull>>

UndatedPull(items, fails, answer, later) ==
    /\ pc = "idle"
    /\ LET r == undated_pull(tasks, nextTaskId, mappings, index, items, fails,
                             answer, now, later, LocalDevice)
       IN  /\ tasks' = r.tasks
           /\ nextTaskId' = r.next
           /\ mappings' = r.mappings
           /\ index' = r.index
    /\ UNCHANGED <<queue, now, calToken, tasksUpdatedMin, gcalRemote,
                   gtasksRemote, pc, bridge, store, lastPush,
                   remoteTasks, tokenFile, localWon, eventBody, appdata, eventMarker, shell, tasksPull>>

UndatedPush(outs, answer, later) ==
    /\ pc = "idle"
    /\ LET r == push_dirty(tasks, mappings, index, gtasksRemote, bridge, outs,
                           answer, now, later, LocalDevice)
       IN  /\ mappings' = r.mappings
           /\ index' = r.index
           /\ gtasksRemote' = r.remote
    /\ UNCHANGED <<tasks, nextTaskId, queue, now, calToken, tasksUpdatedMin,
                   gcalRemote, pc, bridge, store, lastPush,
                   remoteTasks, tokenFile, localWon, eventBody, appdata, eventMarker, shell, tasksPull>>

\* the engine for undated tasks: edits in the interface, pull, push_dirty,
\* edits made by others in the remote task list and in the index
NextUndated ==
    \/ \E title \in LocalTitles : UndatedAdd(title)
    \/ \E id \in TaskIds, status \in {"todo", "doing", "done"},
          answer \in IndexAnswers, later \in LaterReadings :
          UndatedEdit(id, status, answer, later)
    \/ \E items \in UndatedListings, fails \in BOOLEAN,
          answer \in IndexAnswers, later \in LaterReadings :
          UndatedPull(items, fails, answer, later)
    \/ \E outs \in [TaskIds -> {200, 503}],
          answer \in IndexAnswers, later \in LaterReadings :
          UndatedPush(outs, answer, later)
    \/ \E i \in RemoteIds : RemoteCreate("gtasks", i)
    \/ \E i \in RemoteIds : RemoteDelete("gtasks", i)
    \/ Tick

\* the engine is built over the bridge to the remote task list or, in its
\* tests, over the stub
InitUndated ==
    /\ tasks = <<>>
    /\ nextTaskId = 1
    /\ queue = <<>>
    /\ now = StartTime
    /\ calToken = None
    /\ tasksUpdatedMin = None
    /\ gcalRemote = [i \in RemoteIds |-> "free"]
    /\ gtasksRemote = [i \in RemoteIds |-> "free"]
    /\ pc = "idle"
    /\ mappings = <<>>
    /\ index = <<>>
    /\ bridge \in Bridges
    /\ store = <<>>
    /\ lastPush = None
    /\ remoteTasks = <<>>
    /\ tokenFile = [kind |-> "missing", data |-> EmptyData]
    /\ localWon = {}
    /\ eventBody = [i \in RemoteIds |-> NoBody]
    /\ appdata = AppDataInit
    /\ eventMarker = [i \in RemoteIds |-> None]
    /\ shell = ShellInit
    /\ tasksPull = TasksPullInit

SpecUndated == InitUndated /\ [][NextUndated]_vars


\* ------------------------------------------------------- GoogleTasksSync
\* The engine of services/google_tasks.py: undated tasks are pushed to one
\* remote task list with the revision (etag) last seen as precondition.
\* store is the table of TaskSyncStore: task id -> google_task_id, etag,
\* updated_at_utc.  remoteTasks is the remote list: task id there -> title,
\* notes, status, due, etag, updated, deleted.
MaxEtag == 3       \* revisions of a remote task are 1..MaxEtag

TaskSyncMapping(google_task_id, etag, updated_at_utc) ==
    [google_task_id |-> google_task_id, etag |-> etag,
     updated_at_utc |-> updated_at_utc]

\* TaskSyncStore.upsert_mapping
upsert_mapping(st, local_id, google_task_id, etag, updated_at_utc, at) ==
    (local_id :> TaskSyncMapping(google_task_id, etag,
                                 IF updated_at_utc # None THEN updated_at_utc
                                 ELSE at)) @@ st

\* TaskSyncStore.delete_mapping
delete_mapping(st, local_id) == [i \in (DOMAIN st) \ {local_id} |-> st[i]]

\* TaskSyncStore.get_mapping_by_google
get_mapping_by_google(st, google_task_id) ==
    LET rows == {i \in DOMAIN st : st[i].google_task_id = google_task_id}
    IN  IF rows = {} THEN None ELSE Min(rows)

\* the body of a patch or an insert
push_body(task) ==
    [title |-> IF task.title = NoneStr THEN DefaultTitle ELSE task.title,
     notes |-> task.notes, status |-> "needsAction"]

\* the remote task after a write of body at revision etag
remote_written(item, body, etag, at) ==
    [item EXCEPT !.title = body.title, !.notes = body.notes,
                 !.status = body.status, !.etag = etag, !.updated = at]

_needs_remote_update(task, mapping) ==
    IF mapping.updated_at_utc = None \/ task.updated_at = None THEN TRUE
    ELSE task.updated_at > mapping.updated_at_utc

\* GoogleTasksSync._apply_remote_task for the item stored under id gid
_apply_remote_task(ts, nid, st, gid, item, at) ==
    LET mid == get_mapping_by_google(st, gid)
        title == IF item.title = NoneStr THEN DefaultTitle ELSE item.title
        updated_remote == IF item.updated # None THEN item.updated ELSE at
        same == [tasks |-> ts, next |-> nid, store |-> st, changed |-> FALSE,
                 full |-> FALSE]
        linked(id) == upsert_mapping(st, id, gid, item.etag, updated_remote, at)
        created == [tasks |-> add(ts, nid, title, item.notes, None, None, at),
                    next |-> nid + 1, store |-> linked(nid), changed |-> TRUE,
                    full |-> FALSE]
    IN  IF item.deleted
        THEN IF mid # None
             THEN [same EXCEPT !.tasks = set_status(ts, mid, "done", at),
                               !.store = delete_mapping(st, mid),
                               !.changed = TRUE]
             ELSE same
        ELSE IF item.status = "completed"
        THEN IF mid # None
             THEN [same EXCEPT !.tasks = set_status(ts, mid, "done", at),
                               !.store = linked(mid), !.changed = TRUE]
             ELSE same
        ELSE IF item.due # None THEN same
        ELSE IF mid # None /\ mid \in DOMAIN ts
        THEN LET task == ts[mid]
                 a == IF task.status = "done" THEN set_status(ts, mid, "todo", at)
                      ELSE ts
                 retitle == task.title # title
                 renote == task.notes # item.notes
                 b == IF retitle \/ renote
                      THEN update(a, mid, IF retitle THEN title ELSE NoneStr,
                                  None, None, at)
                      ELSE a
                 c == IF renote THEN [b EXCEPT ![mid].notes = item.notes] ELSE b
             IN  [same EXCEPT !.tasks = c, !.store = linked(mid),
                              !.changed = task.status = "done" \/ retitle \/ renote]
        ELSE IF nid > MaxTasks THEN [same EXCEPT !.full = TRUE]
        ELSE created

\* GoogleTasksSync._handle_conflict: the remote task is fetched; calls are
\* the requests made, a patch with the If-Match it carried
_handle_conflict(ts, nid, st, remote, id, at) ==
    LET mapping == st[id]
        gid == mapping.google_task_id
        item == remote[gid]
        task == ts[id]
        fetched == <<[call |-> "get", if_match |-> None]>>
        newer == item.updated # None
                    /\ (task.updated_at = None \/ item.updated >= task.updated_at)
        r == _apply_remote_task(ts, nid, st, gid, item, at)
    IN  IF newer
        THEN [tasks |-> r.tasks, next |-> r.next, store |-> r.store,
              remote |-> remote, changed |-> r.changed, full |-> r.full,
              raised |-> FALSE, calls |-> fetched]
        ELSE IF item.etag + 1 > MaxEtag
        THEN [tasks |-> ts, next |-> nid, store |-> st, remote |-> remote,
              changed |-> FALSE, full |-> TRUE, raised |-> FALSE,
              calls |-> fetched]
        ELSE [tasks |-> ts, next |-> nid,
              store |-> upsert_mapping(st, id, gid, item.etag + 1, at, at),
              remote |-> [remote EXCEPT ![gid] =
                             remote_written(item, push_body(task),
                                            item.etag + 1, at)],
              changed |-> TRUE, full |-> FALSE, raised |-> FALSE,
              calls |-> fetched \o <<[call |-> "patch", if_match |-> item.etag]>>]

\* the remote's answer to a patch of gid that carries If-Match etag: out
\* when the remote is out of order, 404 for a task it does not have, 412
\* when the task is at another revision
PatchAnswer(remote, gid, etag, out) ==
    IF out # 200 THEN out
    ELSE IF gid \notin DOMAIN remote THEN 404
    ELSE IF etag # None /\ remote[gid].etag # etag THEN 412
    ELSE 200

\* GoogleTasksSync._push_task
_push_task(ts, nid, st, remote, id, force, out, at) ==
    LET task == ts[id]
        mapped == id \in DOMAIN st /\ st[id].google_task_id # None
        gid == st[id].google_task_id
        same == [tasks |-> ts, next |-> nid, store |-> st, remote |-> remote,
                 changed |-> FALSE, full |-> FALSE, raised |-> FALSE,
                 calls |-> <<>>]
        patch == <<[call |-> "patch", if_match |-> st[id].etag]>>
        answer == PatchAnswer(remote, gid, st[id].etag, out)
        free == RemoteIds \ DOMAIN remote
        inserted(calls) ==
            IF out # 200
            THEN [same EXCEPT !.raised = TRUE,
                     !.calls = calls \o <<[call |-> "insert", if_match |-> None]>>]
            ELSE IF free = {} THEN [same EXCEPT !.full = TRUE]
            ELSE LET new == Min(free)
                 IN  [same EXCEPT
                        !.store = upsert_mapping(st, id, new, 1, at, at),
                        !.remote = (new :> [remote_written(
                                               [title |-> NoneStr, notes |-> NoneStr,
                                                status |-> "needsAction",
                                                due |-> None, etag |-> 1,
                                                updated |-> at, deleted |-> FALSE],
                                               push_body(task), 1, at)
                                            EXCEPT !.deleted = FALSE]) @@ remote,
                        !.changed = TRUE,
                        !.calls = calls \o <<[call |-> "insert", if_match |-> None]>>]
    IN  IF ~mapped THEN inserted(<<>>)
        ELSE IF ~force /\ ~_needs_remote_update(task, st[id]) THEN same
        ELSE IF answer = 404 THEN inserted(patch)
        ELSE IF answer = 412
        THEN LET r == _handle_conflict(ts, nid, st, remote, id, at)
             IN  [r EXCEPT !.calls = patch \o r.calls]
        ELSE IF answer # 200 THEN [same EXCEPT !.raised = TRUE, !.calls = patch]
        ELSE IF remote[gid].etag + 1 > MaxEtag THEN [same EXCEPT !.full = TRUE]
        ELSE [same EXCEPT
                !.store = upsert_mapping(st, id, gid, remote[gid].etag + 1, at, at),
                !.remote = [remote EXCEPT ![gid] =
                               remote_written(@, push_body(task), @.etag + 1, at)],
                !.changed = TRUE,
                !.calls = patch]

\* TaskService.list_unscheduled_updated_since: the ids of the undated
\* tasks that are not done and were edited after since
list_unscheduled_updated_since(ts, since) ==
    {i \in DOMAIN ts : /\ ts[i].start = None
                       /\ since # None => ts[i].updated_at > since
                       /\ ts[i].status # "done"}

RECURSIVE PushTasks(_, _, _, _)
PushTasks(st, ids, out, at) ==
    IF ids = {} \/ st.raised \/ st.full THEN st
    ELSE LET id == CHOOSE i \in ids :
                     \A j \in ids : \/ st.tasks[i].updated_at > st.tasks[j].updated_at
                                    \/ /\ st.tasks[i].updated_at = st.tasks[j].updated_at
                                       /\ i <= j
             r == IF id \in DOMAIN st.tasks
                  THEN _push_task(st.tasks, st.next, st.store, st.remote, id,
                                  FALSE, out, at)
                  ELSE st
         IN  PushTasks([r EXCEPT !.changed = st.changed \/ r.changed,
                                 !.calls = st.calls \o r.calls],
                       ids \ {id}, out, at)

\* GoogleTasksSync.push(force_all=False): the tasks are taken latest edit
\* first
tasks_push(ts, nid, st, remote, since, out, at) ==
    PushTasks([tasks |-> ts, next |-> nid, store |-> st, remote |-> remote,
               changed |-> FALSE, full |-> FALSE, raised |-> FALSE,
               calls |-> <<>>],
              list_unscheduled_updated_since(ts, since), out, at)

\* the title of an undated task is edited in the interface
TasksSyncEdit(id, title) ==
    /\ pc = "idle"
    /\ id \in DOMAIN tasks
    /\ tasks[id].start = None
    /\ tasks' = update(tasks, id, title, None, None, now)
    /\ UNCHANGED <<nextTaskId, queue, now, calToken, tasksUpdatedMin, gcalRemote,
                   gtasksRemote, pc, mappings, index, bridge, store,
                   lastPush, remoteTasks, tokenFile, localWon, eventBody, appdata, eventMarker, shell, tasksPull>>

\* GoogleTasksSync.push; a request the remote refuses raises and what was
\* written before it stays
TasksSyncPush(out) ==
    /\ pc = "idle"
    /\ LET r == tasks_push(tasks, nextTaskId, store, remoteTasks, lastPush,
                            out, now)
       IN  /\ ~r.full
           /\ tasks' = r.tasks
           /\ nextTaskId' = r.next
           /\ store' = r.store
           /\ remoteTasks' = r.remote
           /\ lastPush' = IF r.changed /\ ~r.raised THEN now ELSE lastPush
    /\ UNCHANGED <<queue, now, calToken, tasksUpdatedMin, gcalRemote,
                   gtasksRemote, pc, mappings, index, bridge, tokenFile, localWon, eventBody, appdata, eventMarker, shell, tasksPull>>

\* someone edits a task in the remote list: a new title, a due date, its
\* completion or its deletion; the remote stamps it with a new revision
RemoteEdits == {"title", "due", "completed", "deleted"}

RemoteTaskEdit(gid, edit, stamp) ==
    /\ pc = "idle"
    /\ gid \in DOMAIN remoteTasks
    /\ ~remoteTasks[gid].deleted
    /\ remoteTasks[gid].etag + 1 <= MaxEtag
    /\ remoteTasks' = [remoteTasks EXCEPT ![gid] =
          [@ EXCEPT !.title = IF edit = "title" THEN "R" ELSE @,
                    !.due = IF edit = "due" THEN 1 ELSE @,
                    !.status = IF edit = "completed" THEN "completed" ELSE @,
                    !.deleted = edit = "deleted",
                    !.etag = @ + 1,
                    !.updated = stamp]]
    /\ UNCHANGED <<tasks, nextTaskId, queue, now, calToken, tasksUpdatedMin,
                   gcalRemote, gtasksRemote, pc, mappings, index, bridge, store,
                   lastPush, tokenFile, localWon, eventBody, appdata, eventMarker, shell, tasksPull>>

\* the push side of GoogleTasksSync: edits in the interface, push, edits
\* made by others in the remote list
NextTasksSync ==
    \/ \E title \in LocalTitles : UndatedAdd(title)
    \/ \E id \in TaskIds, title \in {"L", "M"} : TasksSyncEdit(id, title)
    \/ \E out \in {200, 503} : TasksSyncPush(out)
    \/ \E gid \in RemoteIds, edit \in RemoteEdits, stamp \in {now - 1, now, now + 1} :
          RemoteTaskEdit(gid, edit, stamp)
    \/ Tick

SpecTasksSync == Init /\ [][NextTasksSync]_vars


\* ------------------------------------------- the queue on its own
\* PendingOpsQueue driven directly: enqueue with a recognised or an
\* unrecognised operation, requeue with a short or a long error, remove,
\* and a clock that runs far enough for every delay to elapse.
MaxRows == 2        \* rows of the PendingOp table
MaxAttempts == 5    \* a row is requeued at most MaxAttempts times
MaxClock == 40      \* the clock stops at MaxClock

EnqueueOps == {"gcal_create", "sync_all"}

RECURSIVE Repeat(_, _)
Repeat(s, n) == IF n = 0 THEN "" ELSE s \o Repeat(s, n - 1)

\* an error text longer than the column keeps
LongError == Repeat("0123456789", 101)
Errors == {"HttpError", LongError}

\* PendingOpsQueue.requeue(op_id, error): the row at position i, if there
\* is one
requeue_at(q, i, error, at) ==
    IF i \in 1..Len(q) THEN [q EXCEPT ![i] = requeue(@, error, at)] ELSE q

\* PendingOpsQueue.remove(op_id)
remove_at(q, i) ==
    IF i \in 1..Len(q)
    THEN [k \in 1..(Len(q) - 1) |-> IF k < i THEN q[k] ELSE q[k + 1]]
    ELSE q

QueueEnqueue(op, task_id) ==
    /\ Len(queue) < MaxRows
    /\ queue' = enqueue(queue, op, task_id, None, now)
    /\ UNCHANGED <<tasks, nextTaskId, now, calToken, tasksUpdatedMin, gcalRemote,
                   gtasksRemote, pc>>
    /\ UNCHANGED otherEngines

QueueRequeue(i, error) ==
    /\ i \in 1..Len(queue) => queue[i].attempts < MaxAttempts
    /\ queue' = requeue_at(queue, i, error, now)
    /\ UNCHANGED <<tasks, nextTaskId, now, calToken, tasksUpdatedMin, gcalRemote,
                   gtasksRemote, pc>>
    /\ UNCHANGED otherEngines

QueueRemove(i) ==
    /\ queue' = remove_at(queue, i)
    /\ UNCHANGED <<tasks, nextTaskId, now, calToken, tasksUpdatedMin, gcalRemote,
                   gtasksRemote, pc>>
    /\ UNCHANGED otherEngines

\* the clock advances by the first backoff delay or by the longest
QueueClock(d) ==
    /\ now + d <= MaxClock
    /\ now' = now + d
    /\ UNCHANGED <<tasks, nextTaskId, queue, calToken, tasksUpdatedMin,
                   gcalRemote, gtasksRemote, pc>>
    /\ UNCHANGED otherEngines

NextQueue ==
    \/ \E op \in EnqueueOps, task_id \in TaskIds : QueueEnqueue(op, task_id)
    \/ \E i \in 1..(MaxRows + 1), error \in Errors : QueueRequeue(i, error)
    \/ \E i \in 1..(MaxRows + 1) : QueueRemove(i)
    \/ \E d \in {2, BackoffCap} : QueueClock(d)

SpecQueue == Init /\ [][NextQueue]_vars

\* ======================================================================
\* Properties of the pull side
\* ======================================================================
\* the synced fields of a task row
SyncedFields(t) ==
    [title |-> t.title, notes |-> t.notes, start |-> t.start,
     duration_minutes |-> t.duration_minutes]

\* the calendar pass over a whole listing, from the current state
CalendarPass(events) ==
    _pull_calendar(tasks, queue, nextTaskId, calToken, events, 0, 200, None, now)

\* the tasks pass over a whole listing, from the current state
TasksPass(entries) ==
    _pull_tasks(tasks, queue, nextTaskId, tasksUpdatedMin, entries, FALSE, now)

\* the rows a pass has added to the queue for task id with one of the ops
Pushed(r, id, ops) ==
    \E i \in (Len(queue) + 1)..Len(r.queue) :
        r.queue[i].task_id = id /\ r.queue[i].op \in ops

\* C1 as the spec states it: for every task linked to a live remote item
\* whose revision T2 is newer than or equal to the task's updated_at T1,
\* after the pull pass the task's title, notes, start and duration equal
\* the remote item's and its recorded remote revision equals T2.
C1_RemoteWinsAlways ==
    /\ \A events \in EventListings : \A k \in 1..Len(events) :
         LET ev == events[k]
             id == get_by_event_id(tasks, ev.id)
             r == CalendarPass(events)
         IN (ev.status # "cancelled" /\ id # None /\ ~r.full
               /\ ev.updated >= tasks[id].updated_at)
            => /\ id \in DOMAIN r.tasks
               /\ SyncedFields(r.tasks[id]) = EventFields(ev)
               /\ r.tasks[id].gcal_updated = ev.updated
    /\ \A entries \in EntryListings : \A k \in 1..Len(entries) :
         LET en == entries[k]
             id == get_by_gtasks_id(tasks, en.id)
             r == TasksPass(entries)
         IN (~en.deleted /\ id # None /\ ~r.full
               /\ en.updated >= tasks[id].updated_at)
            => /\ id \in DOMAIN r.tasks
               /\ SyncedFields(r.tasks[id]) = EntryFields(en)
               /\ r.tasks[id].gtasks_updated = en.updated

\* C1, amended: for every task linked to a live remote item whose revision
\* T2 is newer than the remote revision recorded on the task (or none is
\* recorded) and newer than or equal to the task's updated_at T1, after
\* the pull pass the task's title, notes, start and duration equal the
\* remote item's and its recorded remote revision equals T2.
C1_RemoteWins ==
    /\ \A events \in EventListings : \A k \in 1..Len(events) :
         LET ev == events[k]
             id == get_by_event_id(tasks, ev.id)
             r == CalendarPass(events)
         IN (ev.status # "cancelled" /\ id # None /\ ~r.full
               /\ (tasks[id].gcal_updated = None
                     \/ ev.updated > tasks[id].gcal_updated)
               /\ ev.updated >= tasks[id].updated_at)
            => /\ id \in DOMAIN r.tasks
               /\ SyncedFields(r.tasks[id]) = EventFields(ev)
               /\ r.tasks[id].gcal_updated = ev.updated
    /\ \A entries \in EntryListings : \A k \in 1..Len(entries) :
         LET en == entries[k]
             id == get_by_gtasks_id(tasks, en.id)
             r == TasksPass(entries)
         IN (~en.deleted /\ id # None /\ ~r.full
               /\ (tasks[id].gtasks_updated = None
                     \/ en.updated > tasks[id].gtasks_updated)
               /\ en.updated >= tasks[id].updated_at)
            => /\ id \in DOMAIN r.tasks
               /\ SyncedFields(r.tasks[id]) = EntryFields(en)
               /\ r.tasks[id].gtasks_updated = en.updated

\* a locally edited task ("L") linked to a calendar event and to no tasks
\* entry, and a listing whose event is newer than both the recorded
\* revision and the local edit: the pass replaces the local fields
C1_Witness ==
    \E events \in EventListings : \E k \in 1..Len(events) :
        LET ev == events[k]
            id == get_by_event_id(tasks, ev.id)
            r == CalendarPass(events)
        IN /\ ev.status # "cancelled" /\ id # None /\ ~r.full
           /\ tasks[id].title \in LocalTitles
           /\ tasks[id].gcal_updated # None
           /\ ev.updated > tasks[id].gcal_updated
           /\ ev.updated >= tasks[id].updated_at
           /\ SyncedFields(tasks[id]) # EventFields(ev)
           /\ SyncedFields(r.tasks[id]) = EventFields(ev)

\* C2 as the spec states it: for every task linked to a live remote item
\* whose updated_at T1 is strictly newer than the item's revision T2, the
\* pull pass leaves the task unchanged and, when the pass ends, the queue
\* holds an operation for that task.
C2_LocalWinsAlways ==
    /\ \A events \in EventListings : \A k \in 1..Len(events) :
         LET ev == events[k]
             id == get_by_event_id(tasks, ev.id)
             r == CalendarPass(events)
         IN (ev.status # "cancelled" /\ id # None /\ ~r.full
               /\ tasks[id].updated_at > ev.updated)
            => /\ id \in DOMAIN r.tasks
               /\ r.tasks[id] = tasks[id]
               /\ \E i \in 1..Len(r.queue) : r.queue[i].task_id = id
    /\ \A entries \in EntryListings : \A k \in 1..Len(entries) :
         LET en == entries[k]
             id == get_by_gtasks_id(tasks, en.id)
             r == TasksPass(entries)
         IN (~en.deleted /\ id # None /\ ~r.full
               /\ tasks[id].updated_at > en.updated)
            => /\ id \in DOMAIN r.tasks
               /\ r.tasks[id] = tasks[id]
               /\ \E i \in 1..Len(r.queue) : r.queue[i].task_id = id

\* C2, amended: for every task linked to a live remote item whose
\* updated_at T1 is strictly newer than the item's revision T2, the pull
\* pass leaves the task unchanged; and when T2 is also newer than the
\* remote revision recorded on the task (or none is recorded), the pass
\* adds to the queue a create or update operation of that backend for the
\* task.
C2_LocalWins ==
    /\ \A events \in EventListings : \A k \in 1..Len(events) :
         LET ev == events[k]
             id == get_by_event_id(tasks, ev.id)
             r == CalendarPass(events)
         IN (ev.status # "cancelled" /\ id # None /\ ~r.full
               /\ tasks[id].updated_at > ev.updated)
            => /\ id \in DOMAIN r.tasks
               /\ r.tasks[id] = tasks[id]
               /\ (tasks[id].gcal_updated = None
                     \/ ev.updated > tasks[id].gcal_updated)
                  => Pushed(r, id, {"gcal_create", "gcal_update"})
    /\ \A entries \in EntryListings : \A k \in 1..Len(entries) :
         LET en == entries[k]
             id == get_by_gtasks_id(tasks, en.id)
             r == TasksPass(entries)
         IN (~en.deleted /\ id # None /\ ~r.full
               /\ tasks[id].updated_at > en.updated)
            => /\ id \in DOMAIN r.tasks
               /\ r.tasks[id] = tasks[id]
               /\ (tasks[id].gtasks_updated = None
                     \/ en.updated > tasks[id].gtasks_updated)
                  => Pushed(r, id, {"gtasks_create", "gtasks_update"})

\* a task edited locally after the revision the remote lists, which is
\* itself newer than the recorded one: the pass keeps the task and queues
\* a calendar update
C2_Witness ==
    \E events \in EventListings : \E k \in 1..Len(events) :
        LET ev == events[k]
            id == get_by_event_id(tasks, ev.id)
            r == CalendarPass(events)
        IN /\ ev.status # "cancelled" /\ id # None /\ ~r.full
           /\ tasks[id].gcal_updated # None
           /\ ev.updated > tasks[id].gcal_updated
           /\ tasks[id].updated_at > ev.updated
           /\ SyncedFields(tasks[id]) # EventFields(ev)
           /\ r.tasks[id] = tasks[id]
           /\ Pushed(r, id, {"gcal_update"})

\* C3: when pull_all runs twice in a row on the same remote listings, the
\* second run makes no write to the Task table (no create, no update, no
\* delete).
C3_PullIdempotent ==
    pc = "idle" =>
    \A events \in EventListings, entries \in EntryListings :
        LET first == pull_all(tasks, queue, nextTaskId, events, entries, now)
        IN ~first.full =>
           \A at2 \in {now, now + 2} :
              LET second == pull_all(first.tasks, first.queue, first.next,
                                     events, entries, at2)
              IN second.writes = 0 /\ second.tasks = first.tasks

\* C4: a pull pass never removes a task: when a listed item is cancelled
\* (calendar) or deleted (tasks), the linked task still exists after the
\* pass with that link stripped and, for the calendar, its start and
\* duration cleared.
C4_PullNeverRemoves ==
    /\ \A events \in EventListings : \A k \in 1..Len(events) :
         LET ev == events[k]
             id == get_by_event_id(tasks, ev.id)
             r == CalendarPass(events)
         IN (ev.status = "cancelled" /\ id # None /\ ~r.full)
            => /\ id \in DOMAIN r.tasks
               /\ r.tasks[id].gcal_event_id = None
               /\ r.tasks[id].start = None
               /\ r.tasks[id].duration_minutes = None
    /\ \A entries \in EntryListings : \A k \in 1..Len(entries) :
         LET en == entries[k]
             id == get_by_gtasks_id(tasks, en.id)
             r == TasksPass(entries)
         IN (en.deleted /\ id # None /\ ~r.full)
            => /\ id \in DOMAIN r.tasks
               /\ r.tasks[id].gtasks_id = None

\* ======================================================================
\* Properties of the push side
\* ======================================================================
\* a worker pass from the current state, the remote treating the k-th due
\* operation as outs[k]
WorkerPass(outs) ==
    push_queue_worker(tasks, queue, gcalRemote, gtasksRemote, outs, now)

\* every way the remote can treat the operations due now
DueOutcomes == [1..Len(due(queue, now, DueLimit)) -> Outcomes]

\* C5: in every reachable state no task has both a calendar link
\* (gcal_event_id) and a tasks-backend link (gtasks_id).
C5_NeverBothLinks ==
    \A id \in DOMAIN tasks :
        ~(tasks[id].gcal_event_id # None /\ tasks[id].gtasks_id # None)

C7_BackendByStart ==
    \A outs \in DueOutcomes :
        LET r == WorkerPass(outs)
        IN \A k \in 1..Len(r.calls) :
            LET c == r.calls[k]
            IN /\ c.api \in {"gtasks.insert", "gtasks.patch"} => c.start = None
               /\ c.api \in {"gcal.insert", "gcal.patch"} => c.start # None

\* C8: a pending operation leaves the queue only when its execution
\* returned true; whenever it raises (any status, or another exception)
\* or returns false, the row is still in the queue after the pass with
\* attempts incremented by one and last_error set, its op, task and
\* payload as before; rows that were not due are untouched.
C8_FailedOpsStay ==
    \A outs \in DueOutcomes :
        LET order == due(queue, now, DueLimit)
            r == WorkerPass(outs)
            after == Compact(r.rows, r.removed, Len(queue))
        IN ~r.full =>
            /\ \A k \in 1..Len(order) :
                 LET i == order[k]
                 IN IF r.results[i] = "true" THEN i \in r.removed
                    ELSE /\ i \notin r.removed
                         /\ r.rows[i].attempts = queue[i].attempts + 1
                         /\ r.rows[i].last_error # ""
                         /\ r.rows[i].op = queue[i].op
                         /\ r.rows[i].task_id = queue[i].task_id
                         /\ r.rows[i].payload = queue[i].payload
                         /\ \E j \in 1..Len(after) : after[j] = r.rows[i]
            /\ \A i \in 1..Len(queue) :
                 (\A k \in 1..Len(order) : order[k] # i)
                 => (i \notin r.removed /\ r.rows[i] = queue[i])
            /\ Len(after) = Len(queue) - Cardinality(r.removed)

\* an operation that has failed twice and is still in the queue
C8_Witness ==
    \E i \in 1..Len(queue) : queue[i].attempts = 2 /\ queue[i].last_error # ""

\* C9: a due gcal_delete or gtasks_delete whose remote entity is already
\* gone, served by the remote with not-found, returns true: the pass
\* removes the row, the task (if it exists) has that link field cleared by
\* the operation and does not carry the link after the pass, and the
\* remote entity is not live again.
C9_DeleteOfGoneSucceeds ==
    \A outs \in DueOutcomes :
        LET order == due(queue, now, DueLimit)
            r == WorkerPass(outs)
        IN ~r.full =>
           \A k \in 1..Len(order) :
              LET i == order[k]
                  e == queue[i]
                  has == e.task_id \in DOMAIN tasks
                  one == _execute_op(e, WorkerState(tasks, queue, gcalRemote, gtasksRemote),
                                     200, now)
              IN /\ (e.op = "gcal_delete" /\ e.payload # None
                       /\ gcalRemote[e.payload] = "gone" /\ outs[k] = 200)
                    => /\ r.results[i] = "true"
                       /\ i \in r.removed
                       /\ r.gcal[e.payload] = "gone"
                       /\ one.res = "true"
                       /\ has => one.tasks[e.task_id].gcal_event_id = None
                       /\ e.task_id \in DOMAIN r.tasks
                          => r.tasks[e.task_id].gcal_event_id # e.payload
                 /\ (e.op = "gtasks_delete" /\ e.payload # None
                       /\ gtasksRemote[e.payload] = "gone" /\ outs[k] = 200)
                    => /\ r.results[i] = "true"
                       /\ i \in r.removed
                       /\ r.gtasks[e.payload] = "gone"
                       /\ one.res = "true"
                       /\ has => one.tasks[e.task_id].gtasks_id = None
                       /\ e.task_id \in DOMAIN r.tasks
                          => r.tasks[e.task_id].gtasks_id # e.payload

\* a due gcal_delete of an event that is gone in the remote, for a task
\* that still carries the link
C9_Witness ==
    \E k \in 1..Len(due(queue, now, DueLimit)) :
        LET e == queue[due(queue, now, DueLimit)[k]]
        IN /\ e.op = "gcal_delete"
           /\ e.payload # None
           /\ gcalRemote[e.payload] = "gone"
           /\ e.task_id \in DOMAIN tasks
           /\ tasks[e.task_id].gcal_event_id = e.payload

\* C10: a calendar pass stores a token only when every page has been
\* fetched and applied: a pass that raises at any page leaves the stored
\* token as it was, a pass that ends stores the token of the last
\* response; a tasks pass that raises leaves the stored watermark as it
\* was.
C10_CursorAfterLastPage ==
    /\ \A items \in EventListings, failPage \in 0..(MaxItems + 1),
          status \in {200, 410, 500}, newToken \in Tokens \cup {None} :
         CalendarFailure(calToken, items, failPage, status) =>
            LET r == _pull_calendar(tasks, queue, nextTaskId, calToken, items,
                                    failPage, status, newToken, now)
            IN r.token = IF failPage = 0 /\ newToken # None THEN newToken
                         ELSE calToken
    /\ \A items \in EntryListings :
         LET r == _pull_tasks(tasks, queue, nextTaskId, tasksUpdatedMin, <<>>,
                              TRUE, now)
             ok == _pull_tasks(tasks, queue, nextTaskId, tasksUpdatedMin, items,
                               FALSE, now)
         IN /\ r.updated_min = tasksUpdatedMin
            /\ r.tasks = tasks
            /\ ok.updated_min # tasksUpdatedMin
               => \E k \in 1..Len(items) : ok.updated_min = items[k].updated

\* a stored token, and a listing whose first page is applied and changes
\* the Task table before the request of the next page raises
C10_Witness ==
    /\ calToken # None
    /\ \E items \in EventListings :
         LET r == _pull_calendar(tasks, queue, nextTaskId, calToken, items,
                                 Len(items) + 1, 500, None, now)
         IN /\ Len(items) > 0
            /\ r.raised
            /\ r.tasks # tasks
            /\ r.token = calToken
\* ======================================================================
\* Properties of the cursor
\* ======================================================================
\* C11: when the first calendar listing of pull_all raises the
\* cursor-invalidated error (410), the token is cleared once and
\* _pull_calendar runs exactly once more, its request carrying no token
\* and timeMin = now - 90 days; when that run ends, the token of its last
\* response is the stored one; when it raises too (410 included) the
\* error propagates with the token left cleared and there is no third
\* run.  Any other outcome of the first run leads to no retry and no
\* reset.  Between the two runs the stored token is absent.
C11_ExpiryRecovery ==
    /\ pc = "cal_retry" => calToken = None
    /\ \A first \in CalendarAnswers, second \in CalendarAnswers :
         LET r == pull_all_calendar(tasks, queue, nextTaskId, calToken,
                                    first, second, now)
         IN IF first.status = 410
            THEN /\ r.passes = 2
                 /\ r.resets = 1
                 /\ Len(r.requests) = 2
                 /\ r.requests[2].syncToken = None
                 /\ r.requests[2].timeMin = now - LookbackDays * DaySeconds
                 /\ r.raised = (second.failPage # 0)
                 /\ r.raised => (r.status = second.status /\ r.token = None)
                 /\ ~r.raised => r.token = second.newToken
            ELSE /\ r.passes = 1
                 /\ r.resets = 0
                 /\ r.raised = (first.failPage # 0)

\* the first run has raised 410 with a token stored, the token has been
\* reset, and the remote answers the second run with a listing that
\* changes the Task table and with a new token
C11_Witness ==
    /\ pc = "cal_retry"
    /\ calToken = None
    /\ \E second \in CalendarAnswers :
         LET r == _pull_calendar(tasks, queue, nextTaskId, calToken,
                                 second.items, second.failPage, second.status,
                                 second.newToken, now)
         IN /\ second.failPage = 0
            /\ second.newToken # None
            /\ r.tasks # tasks
            /\ r.token = second.newToken

\* C12: every listing a pull requests while no cursor is stored carries a
\* bounded lower time limit: with no calendar token the events request
\* has timeMin = now - 90 days, and with no tasks watermark the tasks
\* request has a lower limit (updated_min) as well.
C12_BoundedFirstSync ==
    /\ calToken = None =>
         LET p == CalendarPass(<<>>).params
         IN p.syncToken = None /\ p.timeMin = now - LookbackDays * DaySeconds
    /\ tasksUpdatedMin = None => TasksPass(<<>>).request.updated_min # None
\* ======================================================================
\* Properties of the engine for undated tasks
\* ======================================================================

\* C13: while the mapping of a task has dirty_flag = 1, no pull pass
\* changes the title, the notes, the status or the priority of that task.
C13_DirtyProtected ==
    \A items \in UndatedListings, answer \in IndexAnswers,
       later \in LaterReadings :
        LET r == undated_pull(tasks, nextTaskId, mappings, index, items, FALSE,
                              answer, now, later, LocalDevice)
        IN  \A id \in DOMAIN tasks :
                (id \in DOMAIN mappings /\ mappings[id].dirty_flag = 1)
                    => /\ r.tasks[id].title = tasks[id].title
                       /\ r.tasks[id].notes = tasks[id].notes
                       /\ r.tasks[id].status = tasks[id].status
                       /\ r.tasks[id].priority = tasks[id].priority


\* what push_dirty leaves for task id when the upsert made for it raised:
\* the mapping row is as it was
PushRaisedKeeps(r, id) ==
    /\ id \in r.skipped
    /\ IF id \in DOMAIN mappings
       THEN id \in DOMAIN r.mappings /\ r.mappings[id] = mappings[id]
       ELSE id \notin DOMAIN r.mappings

\* what push_dirty leaves in the mapping table for task id when the upsert
\* made for it returned an id
PushedMapping(r, id) ==
    /\ id \in DOMAIN r.mappings
    /\ r.mappings[id].gtask_id = r.returned[id]
    /\ r.mappings[id].dirty_flag = 0
    /\ r.returned[id] \in DOMAIN r.index

\* the index entry e carries the id, the normalised status and the
\* normalised priority of task id
CarriesTask(e, id) ==
    /\ e.task_id = id
    /\ e.status = _normalise_status(tasks[id].status, "todo")
    /\ e.priority = _normalise_priority(tasks[id].priority)

\* the tasks push_dirty has to push, when the remote gives each its own id
ToPush(r, id) ==
    /\ tasks[id].start = None
    /\ id \notin DOMAIN mappings \/ mappings[id].dirty_flag = 1
    /\ \A other \in DOMAIN r.returned :
          other # id /\ id \in DOMAIN r.returned
              => r.returned[other] # r.returned[id]

MetaInputs ==
    [task_id : {1}, priority : {1, 2}, status : {"todo"},
     updated_at : {None, StartTime, StartTime + 1}, device_id : DeviceIds]

\* the resolved entry x is the entry e, whatever was filled in for an
\* absent updated_at
Chosen(x, e) ==
    /\ Len(x) = 1
    /\ x[1].task_id = e.task_id
    /\ x[1].priority = e.priority
    /\ x[1].status = e.status
    /\ x[1].device_id = e.device_id

\* C17: of a local and a remote metadata entry for one remote task id the
\* one with the newer updated_at is chosen; with equal timestamps, or with
\* none, the one with the greater device_id; and a device that holds the
\* two entries the other way round chooses the same entry.
C17_MetaConverges ==
    \A a, b \in MetaInputs, later \in LaterReadings :
        LET x == _resolve_meta_entry(<<a>>, <<b>>, now, later, a.device_id)
            y == _resolve_meta_entry(<<b>>, <<a>>, now, later, b.device_id)
            both == a.updated_at # None /\ b.updated_at # None
            tie == a.updated_at = b.updated_at
        IN  /\ both /\ a.updated_at > b.updated_at => Chosen(x, a)
            /\ both /\ b.updated_at > a.updated_at => Chosen(x, b)
            /\ tie /\ a.device_id > b.device_id => Chosen(x, a)
            /\ tie /\ b.device_id > a.device_id => Chosen(x, b)
            /\ Chosen(x, y[1])

\* ======================================================================
\* Properties of the push side of GoogleTasksSync
\* ======================================================================

\* the push of task id will meet a revision conflict: its mapping holds a
\* revision the remote task has left behind
Conflict(id) ==
    /\ tasks[id].start = None
    /\ tasks[id].status # "done"
    /\ id \in DOMAIN store
    /\ store[id].google_task_id \in DOMAIN remoteTasks
    /\ store[id].etag # remoteTasks[store[id].google_task_id].etag
    /\ _needs_remote_update(tasks[id], store[id])

\* the values of the remote item are the task's
RemoteApplied(task, item) ==
    IF item.deleted \/ item.status = "completed" THEN task.status = "done"
    ELSE task.title = item.title /\ task.notes = item.notes

\* C15: when the patch of a task fails with a revision conflict the remote
\* task is fetched; if its revision stamp is newer than the task's
\* updated_at its values are applied locally and nothing more is sent,
\* otherwise the remote is overwritten with the task's values under the
\* fetched revision; and the stale revision is not kept as the
\* precondition of the next push.
C15_ConflictHandled ==
    \A id \in DOMAIN tasks :
        Conflict(id) =>
            LET gid == store[id].google_task_id
                item == remoteTasks[gid]
                r == _push_task(tasks, nextTaskId, store, remoteTasks, id,
                                FALSE, 200, now)
            IN  ~r.full =>
                    /\ Len(r.calls) >= 2
                    /\ r.calls[1] = [call |-> "patch", if_match |-> store[id].etag]
                    /\ r.calls[2].call = "get"
                    /\ IF item.updated > tasks[id].updated_at
                       THEN /\ Len(r.calls) = 2
                            /\ r.remote = remoteTasks
                            /\ RemoteApplied(r.tasks[id], item)
                       ELSE /\ Len(r.calls) = 3
                            /\ r.calls[3] = [call |-> "patch", if_match |-> item.etag]
                            /\ r.remote[gid].title = tasks[id].title
                            /\ r.remote[gid].notes = tasks[id].notes
                    /\ id \in DOMAIN r.store => r.store[id].etag # store[id].etag

\* ======================================================================
\* Properties of redundant operations
\* ======================================================================

\* the remote with room for one more entity than the model lets others
\* create
Spare(remote) == ((MaxRemote + 1) :> "free") @@ remote

\* the entities of a remote that a worker pass has created
CreatedBy(before, after) ==
    {i \in DOMAIN after : after[i] = "live" /\ before[i] # "live"}

\* the tasks for which a worker pass has called api
CalledFor(calls, api) ==
    {calls[k].task_id : k \in {j \in 1..Len(calls) : calls[j].api = api}}

\* C16: executing all the due operations, several of which may be creates
\* and updates of one task, against a remote that serves every call leaves
\* no more new remote events, and no more new remote tasks, than there are
\* tasks they were created for.
C16_NoDuplicate ==
    LET n == Len(due(queue, now, DueLimit))
        gcal == Spare(gcalRemote)
        gtasks == Spare(gtasksRemote)
        r == push_queue_worker(tasks, queue, gcal, gtasks,
                               [k \in 1..n |-> 200], now)
    IN  ~r.full =>
            /\ Cardinality(CreatedBy(gcal, r.gcal))
                  <= Cardinality(CalledFor(r.calls, "gcal.insert"))
            /\ Cardinality(CreatedBy(gtasks, r.gtasks))
                  <= Cardinality(CalledFor(r.calls, "gtasks.insert"))

\* ======================================================================
\* Properties of the queue on its own
\* ======================================================================

\* C18: enqueue with an operation that is not one of the six recognised
\* kinds fails and leaves the queue as it was; otherwise it adds exactly one
\* row, with attempts = 0 and next_try_at = now, whatever rows there are
\* already for the same operation and task.
C18_Enqueue ==
    \A op \in EnqueueOps \cup VALID_OPS, task_id \in TaskIds :
        LET q == enqueue(queue, op, task_id, None, now)
        IN  IF op \notin VALID_OPS
            THEN enqueue_raises(op) /\ q = queue
            ELSE /\ ~enqueue_raises(op)
                 /\ Len(q) = Len(queue) + 1
                 /\ SubSeq(q, 1, Len(queue)) = queue
                 /\ q[Len(q)].op = op
                 /\ q[Len(q)].task_id = task_id
                 /\ q[Len(q)].attempts = 0
                 /\ q[Len(q)].next_try_at = now

\* two rows for the same operation and task, the second enqueued after the
\* first was requeued
C18_Witness ==
    /\ Len(queue) = 2
    /\ queue[1].op = queue[2].op
    /\ queue[1].task_id = queue[2].task_id
    /\ queue[1].attempts > 0
    /\ queue[2].attempts = 0
    /\ queue[2].next_try_at = now

\* the rows that are due
DueRows == {i \in 1..Len(queue) : queue[i].next_try_at <= now}

\* C19: due(limit) returns at most limit rows, each with next_try_at <= now,
\* in ascending order of next_try_at, and leaves out no due row while it
\* returns one with a later next_try_at.
C19_Due ==
    \A limit \in 0..(Len(queue) + 1) :
        LET d == due(queue, now, limit)
            returned == {d[k] : k \in 1..Len(d)}
        IN  /\ Len(d) <= limit
            /\ Cardinality(returned) = Len(d)
            /\ returned \subseteq DueRows
            /\ \A k \in 1..(Len(d) - 1) :
                  queue[d[k]].next_try_at <= queue[d[k + 1]].next_try_at
            /\ \A i \in DueRows \ returned : \A j \in returned :
                  queue[j].next_try_at <= queue[i].next_try_at
            /\ DueRows \ returned # {} => Len(d) = limit

\* two rows are due and the one inserted first is due later
C19_Witness ==
    /\ Len(queue) = 2
    /\ DueRows = {1, 2}
    /\ queue[1].next_try_at > queue[2].next_try_at
    /\ due(queue, now, 1) = <<2>>

\* min(30, 2^k)
Delay(k) == IF 2 ^ k < 30 THEN 2 ^ k ELSE 30

\* C20: a requeue adds one to attempts, keeps the row and the other rows,
\* stores the error cut to a bounded length and sets next_try_at to now +
\* min(30, 2^attempts) seconds; the delay never decreases from one failure
\* to the next and never exceeds 30 seconds.
C20_Backoff ==
    \A i \in 1..Len(queue), error \in Errors :
        LET q == requeue_at(queue, i, error, now)
            k == queue[i].attempts + 1
        IN  /\ Len(q) = Len(queue)
            /\ \A j \in 1..Len(queue) : j # i => q[j] = queue[j]
            /\ q[i].op = queue[i].op /\ q[i].task_id = queue[i].task_id
            /\ q[i].attempts = k
            /\ Len(q[i].last_error) <= ErrorLimit
            /\ q[i].last_error = SubSeq(error, 1, Len(q[i].last_error))
            /\ Len(error) <= ErrorLimit => q[i].last_error = error
            /\ q[i].next_try_at = now + Delay(k)
            /\ q[i].next_try_at - now <= 30
            /\ Delay(k) >= Delay(k - 1)
            /\ requeue_at(q, i, error, now)[i].next_try_at >= q[i].next_try_at

\* a row has failed often enough for the delay to be capped, and its long
\* error was cut
C20_Witness ==
    \E i \in 1..Len(queue) :
        /\ queue[i].attempts = MaxAttempts
        /\ Len(queue[i].last_error) = ErrorLimit
        /\ queue[i].next_try_at = now + BackoffCap

\* ======================================================================
\* Properties of the cursor storage
\* ======================================================================
\* the file is missing, torn or cannot be parsed
Corrupt(f) == f.kind \in {"missing", "text", "bytes", "other"}

\* C21: when the cursor file is missing, torn or unparseable, every getter
\* returns None without raising, the requests of the next pull carry no
\* cursor (a full resync), and set_calendar_token succeeds and the token it
\* stored is read back.
C21_CorruptTolerated ==
    Corrupt(tokenFile) =>
        /\ \A i \in DOMAIN Getters(tokenFile) :
              /\ ~Getters(tokenFile)[i].raised
              /\ Getters(tokenFile)[i].value = None
        /\ calendar_list_params(get_calendar_token(tokenFile).value, now).syncToken
              = None
        /\ tasks_list_request(get_tasks_updated_min(tokenFile).value).updated_min
              = None
        /\ \A token \in StoredTokens :
              LET s == set_calendar_token(tokenFile, token) IN
              /\ ~s.raised
              /\ ~get_calendar_token(s.file).raised
              /\ get_calendar_token(s.file).value = token

\* the operations that push a task to a backend
PushOps == {"gcal_create", "gcal_update", "gtasks_create", "gtasks_update"}

\* C22: after force_full_resync returns, the pending-operation queue holds
\* at least one push operation for each task of the local store.
C22_ResyncQueuesAll ==
    pc = "idle" =>
        \A events \in EventListings, entries \in EntryListings :
            LET r == force_full_resync(tasks, queue, nextTaskId, tokenFile,
                                       events, None, entries, now)
            IN ~r.full =>
                 \A id \in DOMAIN r.tasks :
                     \E i \in 1..Len(r.queue) :
                         /\ r.queue[i].task_id = id
                         /\ r.queue[i].op \in PushOps

\* the remote item names local task id in its embedded metadata, the task
\* has no remote id yet, no mapping row holds the item's id, and the item's
\* revision is later than the task's updated_at
NamesUnlinked(item, id) ==
    /\ id \in DOMAIN tasks
    /\ item.detected_meta.task_id = id
    /\ id \in DOMAIN mappings => mappings[id].gtask_id = None
    /\ by_gtask(mappings, item.id) = None
    /\ item.updated # None
    /\ item.updated > tasks[id].updated_at

\* C23: when a pull lists a remote item whose embedded metadata names an
\* existing local task that has no remote link yet, the pull links that
\* task to the item's id, creates no second local task and, the item's
\* revision being newer than the task's updated_at, gives the task the
\* remote title.
C23_LinkedByMetadata ==
    \A items \in UndatedListings, answer \in IndexAnswers,
       later \in LaterReadings, id \in TaskIds :
        (items # <<>> /\ NamesUnlinked(items[1], id)) =>
            LET r == undated_pull(tasks, nextTaskId, mappings, index, items,
                                  FALSE, answer, now, later, LocalDevice)
            IN  /\ ~r.raised
                /\ DOMAIN r.tasks = DOMAIN tasks
                /\ id \in DOMAIN r.mappings
                /\ r.mappings[id].gtask_id = items[1].id
                /\ r.tasks[id].title = items[1].title

\* ======================================================================
\* Properties under failure
\* ======================================================================
\* without credentials no call reaches a remote: every due operation meets
\* a client that cannot be built
NoCredentials == [k \in 1..Len(due(queue, now, DueLimit)) |-> NoService]

\* pull_all without credentials: gcal.connect() raises before the first
\* request of _pull_calendar
PullWithoutCredentials ==
    LET refused == [items |-> <<>>, failPage |-> 1, status |-> NoService,
                    newToken |-> None]
    IN  pull_all_calendar(tasks, queue, nextTaskId, calToken, refused, refused, now)

\* the operation has nothing to ask of the remote: its task is gone or is
\* on the other backend, or there is no remote id to patch or delete
NeedsNoCall(e) ==
    LET has == e.task_id \in DOMAIN tasks
        t == tasks[e.task_id]
    IN  IF e.op = "gcal_create" THEN ~has \/ ~_is_scheduled(t)
        ELSE IF e.op = "gcal_update"
        THEN ~has \/ ~_is_scheduled(t)
                \/ (e.payload = None /\ t.gcal_event_id = None)
        ELSE IF e.op = "gcal_delete"
        THEN e.payload = None /\ (has => t.gcal_event_id = None)
        ELSE IF e.op = "gtasks_create" THEN ~has \/ _is_scheduled(t)
        ELSE IF e.op = "gtasks_update"
        THEN ~has \/ (e.payload = None /\ t.gtasks_id = None)
        ELSE e.payload = None /\ (has => t.gtasks_id = None)

\* a row of the queue names the same operation as before
SameOperation(a, b) ==
    a.op = b.op /\ a.task_id = b.task_id /\ a.payload = b.payload

\* C24 as stated: without credentials a pull pass and a worker pass leave
\* every task unchanged and every pending operation in the queue.
C24_NothingDropped ==
    LET p == PullWithoutCredentials
        r == WorkerPass(NoCredentials)
    IN  /\ p.tasks = tasks /\ p.queue = queue
        /\ r.tasks = tasks
        /\ r.removed = {}
        /\ \A i \in 1..Len(queue) : SameOperation(r.rows[i], queue[i])

\* C24: without credentials a pull pass raises and changes nothing; a
\* worker pass makes no remote call, leaves every task and both remotes
\* unchanged, and takes off the queue only the due operations that have
\* nothing to ask of the remote; every other operation stays, with
\* attempts, last_error and next_try_at updated if it was due and untouched
\* if it was not.
C24_NothingLost ==
    LET p == PullWithoutCredentials
        r == WorkerPass(NoCredentials)
        order == due(queue, now, DueLimit)
        isDue(i) == \E k \in 1..Len(order) : order[k] = i
    IN  /\ p.raised /\ p.tasks = tasks /\ p.queue = queue /\ p.token = calToken
        /\ ~r.full
        /\ r.tasks = tasks
        /\ r.calls = <<>>
        /\ r.gcal = gcalRemote /\ r.gtasks = gtasksRemote
        /\ \A i \in 1..Len(queue) :
              /\ SameOperation(r.rows[i], queue[i])
              /\ i \in r.removed <=> (isDue(i) /\ NeedsNoCall(queue[i]))
              /\ (isDue(i) /\ i \notin r.removed) =>
                    /\ r.rows[i].attempts = queue[i].attempts + 1
                    /\ r.rows[i].next_try_at > now
              /\ ~isDue(i) => r.rows[i] = queue[i]

\* an operation that met the missing credentials is still in the queue,
\* beside a task
C24_Witness ==
    /\ tasks # <<>>
    /\ \E i \in 1..Len(queue) :
          /\ queue[i].attempts > 0
          /\ queue[i].last_error \in {"invalid payload", "Exception"}
          /\ ~NeedsNoCall(queue[i])

\* C25: a local add, update or delete commits to the Task table and
\* returns normally even when the sync hook it triggers raises, at its
\* first or at a later enqueue; the Task table is then as it is when the
\* hook is not run at all.
C25_CrudNotBlocked ==
    \A fail_at \in HookFailures, title \in LocalTitles, s \in Schedules :
        /\ nextTaskId <= MaxTasks =>
              LET r == TaskService_add(tasks, queue, nextTaskId, title, s[1], s[2],
                                       TRUE, fail_at, now)
                  d == TaskService_add(tasks, queue, nextTaskId, title, s[1], s[2],
                                       FALSE, 0, now)
              IN  /\ ~r.raised
                  /\ r.tasks = d.tasks /\ r.next = d.next
                  /\ nextTaskId \in DOMAIN r.tasks
        /\ \A id \in DOMAIN tasks :
              LET r == TaskService_update(tasks, queue, id, title, s[1], s[2],
                                          TRUE, fail_at, now)
                  d == TaskService_update(tasks, queue, id, title, s[1], s[2],
                                          FALSE, 0, now)
              IN  /\ ~r.raised
                  /\ r.tasks = d.tasks
                  /\ r.tasks[id].start = s[1] /\ r.tasks[id].updated_at = now
        /\ \A id \in DOMAIN tasks :
              LET r == TaskService_delete(tasks, queue, id, TRUE, fail_at, now)
                  d == TaskService_delete(tasks, queue, id, FALSE, 0, now)
              IN  /\ ~r.raised
                  /\ r.tasks = d.tasks
                  /\ id \notin DOMAIN r.tasks

\* a task whose hooks failed: it is in the table, linked to a remote
\* entity, and a local edit of it has been committed after the link was
\* made although no operation for it is in the queue
C25_Witness ==
    \E id \in DOMAIN tasks :
        /\ queue = <<>>
        /\ tasks[id].gcal_event_id # None
        /\ tasks[id].updated_at > tasks[id].gcal_updated

\* the pull of one remote item that is completed and carries notes "N"
CompletedItems ==
    {[item EXCEPT !.status = "completed", !.notes = "N"] :
        item \in UNION {ItemsOf(i) : i \in {g \in RemoteIds :
                                              gtasksRemote[g] = "live"}}}

\* C26: a local task that is done is pushed with remote status completed
\* and a completion time; a pulled item that is completed makes its mapped
\* local task done whatever the index entry says; with a clean mapping the
\* pull also applies the remote notes.
C26_CompletionBothWays ==
    /\ \A id \in DOMAIN tasks, answer \in IndexAnswers :
          (/\ tasks[id].status = "done" /\ tasks[id].start = None
           /\ id \in DOMAIN mappings => mappings[id].dirty_flag = 1)
          => LET r == push_dirty(tasks, mappings, index, gtasksRemote, bridge,
                                 [i \in TaskIds |-> 200], answer, now, now,
                                 LocalDevice)
                 mapping == IF id \in DOMAIN mappings THEN mappings[id]
                            ELSE [gtask_id |-> None, dirty_flag |-> 1]
                 body == upsert_body(push_payload(tasks[id], mapping), now)
             IN  /\ id \notin r.skipped
                 /\ body.status = "completed"
                 /\ body.completed # None
    /\ \A item \in CompletedItems, answer \in IndexAnswers :
          LET id == by_gtask(mappings, item.id)
              r == undated_pull(tasks, nextTaskId, mappings, index, <<item>>,
                                FALSE, answer, now, now, LocalDevice)
          IN  (id # None /\ id \in DOMAIN tasks) =>
                  /\ ~r.raised
                  /\ r.tasks[id].status = "done"
                  /\ mappings[id].dirty_flag = 0 => r.tasks[id].notes = "N"

\* ------------------------------------------- the local write, pushed
MaxWins == 4       \* SpecWins: rows of the pending-operation table
Horizon == StartTime + 2 * MaxTicks

\* build_event_payload: the summary, the description less its marker,
\* the start and start + duration
build_event_payload(task) ==
    [summary |-> task.title, notes |-> task.notes, start |-> task.start,
     end |-> IF task.start # None /\ task.duration_minutes # None
             THEN task.start + task.duration_minutes ELSE None]

\* the same fields of an event of a listing
ListedBody(ev) ==
    [summary |-> ev.title, notes |-> ev.notes, start |-> ev.start, end |-> ev.end]

\* _apply_calendar_event reaches the comparison of the two revisions: the
\* event is confirmed, linked, and newer than the revision last seen
Compared(ts, ev, at) ==
    LET id == get_by_event_id(ts, ev.id)
    IN /\ ev.status # "cancelled"
       /\ id # None
       /\ ~remote_not_newer(ts[id].gcal_updated, RemoteUpdated(ev, at))

\* ... and takes the branch of the newer local task
LocalNewer(ts, ev, at) ==
    /\ Compared(ts, ev, at)
    /\ ~remote_wins(RemoteUpdated(ev, at), ts[get_by_event_id(ts, ev.id)].updated_at)

\* pull_all, with what the listing shows of the events others have edited;
\* localWon holds the tasks of the events found older than their task
WinsPull(events, entries) ==
    /\ pc = "idle"
    /\ LET r == pull_all(tasks, queue, nextTaskId, events, entries, now)
           shown == {k \in 1..Len(events) : Compared(tasks, events[k], now)}
       IN /\ ~r.full
          /\ Len(r.queue) <= MaxWins
          /\ tasks' = r.tasks
          /\ queue' = r.queue
          /\ nextTaskId' = r.next
          /\ localWon' =
                (localWon \ {get_by_event_id(tasks, events[k].id) : k \in shown})
                \cup {get_by_event_id(tasks, events[k].id) :
                         k \in {j \in shown : LocalNewer(tasks, events[j], now)}}
          /\ eventBody' = [e \in RemoteIds |->
                IF \E k \in shown : events[k].id = e
                THEN ListedBody(events[CHOOSE k \in shown : events[k].id = e])
                ELSE eventBody[e]]
    /\ UNCHANGED <<now, calToken, tasksUpdatedMin, gcalRemote, gtasksRemote, pc,
                   mappings, index, bridge, store, lastPush, remoteTasks, tokenFile, appdata, eventMarker, shell, tasksPull>>

\* TaskService.update with its hook; the edit supersedes what a pull found
WinsUpdate(id, title, start, duration) ==
    /\ pc = "idle"
    /\ id \in DOMAIN tasks
    /\ LET ts == update(tasks, id, title, start, duration, now)
           q == on_task_updated(queue, ts, id, now)
       IN /\ Len(q) <= MaxWins
          /\ tasks' = ts
          /\ queue' = q
    /\ localWon' = localWon \ {id}
    /\ UNCHANGED <<nextTaskId, now, calToken, tasksUpdatedMin, gcalRemote,
                   gtasksRemote, pc, mappings, index, bridge, store, lastPush,
                   remoteTasks, tokenFile, eventBody, appdata, eventMarker, shell, tasksPull>>

\* the bodies the events hold after the first n rows of a worker pass
RECURSIVE BodiesAfter(_, _, _, _, _, _)
BodiesAfter(bodies, st, order, n, outs, at) ==
    IF n = 0 THEN bodies
    ELSE LET prev == BodiesAfter(bodies, st, order, n - 1, outs, at)
             a == WorkerLoop(st, order, n - 1, outs, at)
             b == WorkerStep(a, order[n], outs[n], at)
             row == st.rows[order[n]]
         IN IF b.results[order[n]] # "true" \/ Len(b.calls) = Len(a.calls)
            THEN prev
            ELSE IF row.op \in {"gcal_create", "gcal_update"}
            THEN [prev EXCEPT ![b.tasks[row.task_id].gcal_event_id] =
                                  build_event_payload(a.tasks[row.task_id])]
            ELSE IF row.op = "gcal_delete"
            THEN [e \in DOMAIN prev |->
                    IF b.gcal[e] = "gone" THEN NoBody ELSE prev[e]]
            ELSE prev

\* no row of the queue names the task, and the event of a scheduled task
\* holds the task's values
Settled(ts, q, bodies, id) ==
    /\ \A i \in 1..Len(q) : q[i].task_id # id
    /\ (id \in DOMAIN ts /\ _is_scheduled(ts[id])) =>
          /\ ts[id].gcal_event_id # None
          /\ bodies[ts[id].gcal_event_id] = build_event_payload(ts[id])

\* push_queue_worker; a call is refused (503) only while the retry falls
\* within the horizon of the clock
WinsWorker(outs) ==
    /\ pc = "idle"
    /\ LET order == due(queue, now, DueLimit)
           st == WorkerState(tasks, queue, gcalRemote, gtasksRemote)
       IN /\ Len(outs) = Len(order)
          /\ \A k \in 1..Len(order) :
                outs[k] # 200 =>
                   _next_try(queue[order[k]].attempts + 1, now) <= Horizon
          /\ LET r == push_queue_worker(tasks, queue, gcalRemote, gtasksRemote,
                                        outs, now)
                 q == Compact(r.rows, r.removed, Len(queue))
                 bodies == BodiesAfter(eventBody, st, order, Len(order), outs, now)
             IN /\ ~r.full
                /\ tasks' = r.tasks
                /\ queue' = q
                /\ gcalRemote' = r.gcal
                /\ gtasksRemote' = r.gtasks
                /\ eventBody' = bodies
                /\ localWon' = {id \in localWon : ~Settled(r.tasks, q, bodies, id)}
    /\ UNCHANGED <<nextTaskId, now, calToken, tasksUpdatedMin, pc,
                   mappings, index, bridge, store, lastPush, remoteTasks, tokenFile, appdata, eventMarker, shell, tasksPull>>

\* a pass every call of which the remote serves
ServedPass ==
    \E n \in 0..MaxWins : WinsWorker([k \in 1..n |-> 200])

NextWins ==
    \/ \E title \in LocalTitles, s \in Schedules :
          LocalAdd(title, s[1], s[2], MaxWins)
    \/ \E id \in TaskIds, title \in LocalTitles, s \in Schedules :
          WinsUpdate(id, title, s[1], s[2])
    \/ \E events \in EventListings, entries \in EntryListings :
          WinsPull(events, entries)
    \/ \E n \in 0..MaxWins : \E outs \in [1..n -> Served] : WinsWorker(outs)
    \/ Tick

\* the bound on the remote ids is what stops the next pass
OutOfIds ==
    LET n == Len(due(queue, now, DueLimit))
    IN push_queue_worker(tasks, queue, gcalRemote, gtasksRemote,
                         [k \in 1..n |-> 200], now).full

\* ENABLED <<ServedPass>>_vars: rows are due and the pass can run
CanServe ==
    /\ pc = "idle"
    /\ Len(due(queue, now, DueLimit)) > 0
    /\ ~OutOfIds

\* the clock advances (WF_vars(Tick)), and the worker keeps being invoked
\* with the remote serving every call of a pass again and again: strong
\* fairness of ServedPass, SF_vars(ServedPass), with its ENABLED written
\* as the state predicate CanServe
SpecWins ==
    /\ Init /\ [][NextWins]_vars
    /\ WF_vars(Tick)
    /\ (<>[]~CanServe \/ []<><<ServedPass>>_vars)

C27_PullWritesNothing ==
    [][(\E events \in EventListings, entries \in EntryListings :
           WinsPull(events, entries))
       => UNCHANGED <<gcalRemote, gtasksRemote>>]_vars

\* ------------------------------------- a crash inside gcal_create
\* the remote has room for one event more than the tasks need
CrashRemoteIds == 1..(MaxRemote + 1)

InitCrash ==
    /\ tasks = <<>>
    /\ nextTaskId = 1
    /\ queue = <<>>
    /\ now = StartTime
    /\ calToken = None
    /\ tasksUpdatedMin = None
    /\ gcalRemote = [i \in CrashRemoteIds |-> "free"]
    /\ gtasksRemote = [i \in RemoteIds |-> "free"]
    /\ pc = "idle"
    /\ mappings = <<>>
    /\ index = <<>>
    /\ bridge = "GoogleTasksBridge"
    /\ store = <<>>
    /\ lastPush = None
    /\ remoteTasks = <<>>
    /\ tokenFile = [kind |-> "missing", data |-> EmptyData]
    /\ localWon = {}
    /\ eventBody = [i \in RemoteIds |-> NoBody]
    /\ appdata = AppDataInit
    /\ eventMarker = [i \in RemoteIds |-> None]
    /\ shell = ShellInit
    /\ tasksPull = TasksPullInit

\* push_queue_worker stopped by the end of the process inside the k-th due
\* row, a gcal_create: events().insert has answered, update_from_sync and
\* queue.remove have not run.  The rows before it were handled as outs says.
CrashInCreate(k, outs) ==
    /\ pc = "idle"
    /\ LET order == due(queue, now, DueLimit)
       IN /\ k \in 1..Len(order)
          /\ Len(outs) = k - 1
          /\ LET st == WorkerLoop(WorkerState(tasks, queue, gcalRemote, gtasksRemote),
                                  order, k - 1, outs, now)
                 row == queue[order[k]]
             IN /\ ~st.full
                /\ row.op = "gcal_create"
                /\ row.task_id \in DOMAIN st.tasks
                /\ _is_scheduled(st.tasks[row.task_id])
                /\ FreeIds(st.gcal) # {}
                /\ tasks' = st.tasks
                /\ queue' = Compact(st.rows, st.removed, Len(queue))
                /\ gcalRemote' = [st.gcal EXCEPT ![Min(FreeIds(st.gcal))] = "live"]
                /\ gtasksRemote' = st.gtasks
    /\ UNCHANGED <<nextTaskId, now, calToken, tasksUpdatedMin, pc>>
    /\ UNCHANGED otherEngines

\* pull_all after the restart
CrashPull(events, entries) ==
    /\ pc = "idle"
    /\ LET r == pull_all(tasks, queue, nextTaskId, events, entries, now)
       IN /\ ~r.full
          /\ Len(r.queue) <= MaxQueue
          /\ tasks' = r.tasks
          /\ queue' = r.queue
          /\ nextTaskId' = r.next
    /\ UNCHANGED <<now, calToken, tasksUpdatedMin, gcalRemote, gtasksRemote, pc>>
    /\ UNCHANGED otherEngines

NextCrash ==
    \/ \E title \in LocalTitles, s \in Schedules :
          LocalAdd(title, s[1], s[2], MaxQueue)
    \/ \E id \in TaskIds : LocalDelete(id, MaxQueue)
    \/ \E k \in 1..MaxQueue : \E outs \in [1..(k - 1) -> Served] :
          CrashInCreate(k, outs)
    \/ \E n \in 0..MaxQueue : \E outs \in [1..n -> Served] : PushQueueWorker(outs)
    \/ \E events \in EventListings, entries \in EntryListings :
          CrashPull(events, entries)
    \/ Tick

SpecCrash == InitCrash /\ [][NextCrash]_vars

\* the tasks linked to event e
LinkedTo(e) == {id \in DOMAIN tasks : tasks[id].gcal_event_id = e}

\* C28: once the worker has emptied the queue after a crash inside a
\* create, every event of the calendar is linked to exactly one local task
\* and no task is linked to an event that is not there
C28_CrashRecovers ==
    queue = <<>> =>
        /\ \A e \in DOMAIN gcalRemote :
              gcalRemote[e] = "live" => Cardinality(LinkedTo(e)) = 1
        /\ \A id \in DOMAIN tasks :
              tasks[id].gcal_event_id # None =>
                 gcalRemote[tasks[id].gcal_event_id] = "live"

\* --------------------------------- the metadata index, written by two
MaxRevision == 7   \* SpecIndex: revisions of the index file
\* each device marks the task of its own remote id, at one reading of the clock
OwnId(d) == d
IndexStamps == {1}

\* what a response can carry as the revision: the ETag header, or no
\* header, and then after an upload the version of files().get or nothing
Revisions == {"etag", "version", "none"}
\* a version of files().get is no ETag and matches none
Version == -1

notAppdata ==
    <<tasks, nextTaskId, queue, now, calToken, tasksUpdatedMin, gcalRemote,
      gtasksRemote, pc, mappings, index, bridge, store, lastPush, remoteTasks,
      tokenFile, localWon, eventBody, eventMarker, shell, tasksPull>>

\* AppDataClient.read_index with _download_json: the payload, and the etag
\* of request.resp when there is one
read_index(blob, revision) ==
    [tasks |-> blob.tasks, base |-> blob.etag,
     etag |-> IF revision = "etag" THEN blob.etag ELSE None]

\* AppDataClient._upload_json: files().update, with If-Match when the etag
\* is not empty; the store answers a precondition that fails with 412
_upload_json(blob, payload, etag, revision) ==
    IF etag # None /\ etag # blob.etag
    THEN [status |-> 412, blob |-> blob, etag |-> None]
    ELSE LET b == [etag |-> blob.etag + 1, tasks |-> payload]
         IN [status |-> 200, blob |-> b,
             etag |-> IF revision = "etag" THEN b.etag
                      ELSE IF revision = "version" THEN Version ELSE None]

\* mark_dirty from _ensure_index_entry to the call of write_index: the
\* index is read if no copy is cached, the entry of the task is set, and the
\* write starts with the cached copy and the cached etag
MarkDirty(d, g, stamp, revision) ==
    /\ appdata.dev[d].stage = "idle"
    /\ LET dev == appdata.dev[d]
           r == read_index(appdata.blob, revision)
           cache == IF dev.loaded THEN dev.cache ELSE r.tasks
           etag == IF dev.loaded THEN dev.etag ELSE r.etag
           edited == (g :> MetaEntry(None, DEFAULT_PRIORITY, "todo", stamp, d))
                        @@ cache
       IN appdata' = [appdata EXCEPT !.dev[d] =
             [cache |-> edited, loaded |-> TRUE, etag |-> etag, dirty |-> TRUE,
              stage |-> "upload", payload |-> edited, local |-> edited,
              if_match |-> etag, attempt |-> 0, raised |-> FALSE,
              base |-> IF dev.loaded THEN dev.base ELSE r.base]]
    /\ UNCHANGED notAppdata

\* one turn of the loop of write_index, and the end of
\* _persist_index_if_dirty when the upload is accepted
WriteAttempt(d, read, written) ==
    /\ appdata.dev[d].stage = "upload"
    /\ LET dev == appdata.dev[d]
           u == _upload_json(appdata.blob, dev.payload, dev.if_match, written)
           r == read_index(appdata.blob, read)
       IN IF u.status = 200
          THEN /\ u.blob.etag <= MaxRevision
               /\ appdata' = [appdata EXCEPT
                     !.blob = u.blob,
                     !.dev[d] = [dev EXCEPT !.cache = dev.payload, !.etag = u.etag,
                                            !.dirty = FALSE, !.stage = "idle",
                                            !.base = u.blob.etag]]
          ELSE appdata' = [appdata EXCEPT !.dev[d] =
                  IF dev.attempt + 1 < _MAX_RETRIES
                  THEN [dev EXCEPT
                          !.payload = _merge_index_payload(r.tasks, dev.local,
                                                           now, now, d),
                          !.if_match = r.etag,
                          !.base = r.base,
                          !.attempt = @ + 1]
                  ELSE [dev EXCEPT !.attempt = @ + 1, !.stage = "idle",
                                   !.raised = TRUE]]
    /\ UNCHANGED notAppdata

\* UndatedTasksSync.reset_cache
ResetCache(d) ==
    /\ appdata.dev[d].stage = "idle"
    /\ appdata.dev[d].loaded
    /\ appdata' = [appdata EXCEPT !.dev[d] =
          [@ EXCEPT !.cache = <<>>, !.loaded = FALSE, !.etag = None,
                    !.dirty = FALSE, !.base = None]]
    /\ UNCHANGED notAppdata

NextIndex ==
    \/ \E d \in DeviceIds, stamp \in IndexStamps, revision \in Revisions :
          MarkDirty(d, OwnId(d), stamp, revision)
    \/ \E d \in DeviceIds, read \in Revisions, written \in Revisions :
          WriteAttempt(d, read, written)
    \/ \E d \in DeviceIds : ResetCache(d)

SpecIndex == Init /\ [][NextIndex]_vars

\* the device whose upload this step's new revision is
Writer(d) ==
    /\ appdata.dev[d].stage = "upload"
    /\ appdata'.dev[d].stage = "idle"
    /\ ~appdata'.dev[d].raised

\* C29: a write gives up after at most 5 uploads; a revision of the index
\* is replaced only by a device that has read that very revision, and the
\* entries of the ids the device holds no entry of are kept
C29_OptimisticWrites ==
    /\ [](\A d \in DeviceIds : appdata.dev[d].attempt <= _MAX_RETRIES)
    /\ [][appdata'.blob # appdata.blob =>
            \E d \in DeviceIds :
               /\ Writer(d)
               /\ appdata.dev[d].base = appdata.blob.etag
               /\ \A g \in DOMAIN appdata.blob.tasks :
                     /\ g \in DOMAIN appdata'.blob.tasks
                     /\ g \notin DOMAIN appdata.dev[d].local =>
                           appdata'.blob.tasks[g] = appdata.blob.tasks[g]]_vars

\* ------------------------------------------ the worker, batch by batch
MaxStarve == 3     \* SpecStarve: rows of the pending-operation table
StarveLimit == 1   \* SpecStarve: the batch of due(), scaled down from DueLimit

StarveTicks == 3   \* SpecStarve: the clock ticks at most StarveTicks times

\* the last reading of the clock
LastClock == StartTime + 2 * StarveTicks

\* time advances
StarveTick ==
    /\ now < LastClock
    /\ now' = now + 2
    /\ UNCHANGED <<tasks, nextTaskId, queue, calToken, tasksUpdatedMin,
                   gcalRemote, gtasksRemote, pc>>
    /\ UNCHANGED otherEngines

\* no two rows of the same operation and task
Unique(q) ==
    \A i, j \in 1..Len(q) :
        (q[i].op = q[j].op /\ q[i].task_id = q[j].task_id) => i = j

\* push_queue_worker over the first `limit` rows of due()
push_queue_batch(ts, q, gcal, gtasks, outs, at, limit) ==
    LET order == due(q, at, limit)
    IN WorkerLoop(WorkerState(ts, q, gcal, gtasks), order, Len(order), outs, at)

\* one pass of the worker; the remote refuses a call (503) only while the
\* retry falls within the readings of the clock
StarveWorker(outs) ==
    /\ pc = "idle"
    /\ LET order == due(queue, now, StarveLimit)
           r == push_queue_batch(tasks, queue, gcalRemote, gtasksRemote, outs,
                                 now, StarveLimit)
       IN /\ Len(order) > 0
          /\ Len(outs) = Len(order)
          /\ ~r.full
          /\ \A k \in 1..Len(order) :
                outs[k] # 200 => r.rows[order[k]].next_try_at <= LastClock
          /\ tasks' = r.tasks
          /\ queue' = Compact(r.rows, r.removed, Len(queue))
          /\ gcalRemote' = r.gcal
          /\ gtasksRemote' = r.gtasks
    /\ UNCHANGED <<nextTaskId, now, calToken, tasksUpdatedMin, pc>>
    /\ UNCHANGED otherEngines

StarvePass ==
    \E n \in 1..StarveLimit : \E outs \in [1..n -> Served] : StarveWorker(outs)

NextStarve ==
    \/ \E title \in LocalTitles, s \in Schedules :
          LocalAdd(title, s[1], s[2], MaxStarve) /\ Unique(queue')
    \/ \E id \in TaskIds, title \in LocalTitles, s \in Schedules :
          LocalUpdate(id, title, s[1], s[2], MaxStarve) /\ Unique(queue')
    \/ \E id \in TaskIds : LocalDelete(id, MaxStarve) /\ Unique(queue')
    \/ StarvePass
    \/ StarveTick

\* the bound on the remote ids is what stops the next pass
StarveOutOfIds ==
    LET n == Len(due(queue, now, StarveLimit))
    IN push_queue_batch(tasks, queue, gcalRemote, gtasksRemote,
                        [k \in 1..n |-> 200], now, StarveLimit).full

\* ENABLED <<StarvePass>>_vars, but for the passes the remote refuses
CanPass ==
    /\ pc = "idle"
    /\ Len(due(queue, now, StarveLimit)) > 0
    /\ ~StarveOutOfIds

\* time advances (WF_vars(StarveTick)) and push_queue_worker is invoked
\* again and again: weak fairness of StarvePass, WF_vars(StarvePass), with
\* its ENABLED written as the state predicate CanPass
SpecStarve ==
    /\ Init /\ [][NextStarve]_vars
    /\ WF_vars(StarveTick)
    /\ ([]<>~CanPass \/ []<><<StarvePass>>_vars)

\* the row of operation op stands in the queue after n failures
RowAt(op, n) ==
    \E i \in 1..Len(queue) : queue[i].op = op /\ queue[i].attempts = n

\* the retry of the row of operation op lies past the last reading
PastClock(op) ==
    \E i \in 1..Len(queue) : queue[i].op = op /\ queue[i].next_try_at > LastClock

\* the due rows that due() puts before the row at position i
Ahead(q, at, i) ==
    Cardinality({j \in 1..Len(q) :
        /\ j # i
        /\ q[j].next_try_at <= at
        /\ \/ q[j].next_try_at < q[i].next_try_at
           \/ (q[j].next_try_at = q[i].next_try_at /\ j < i)})

\* the row at position i is due and the batch of a pass ends before it
Waiting(i) ==
    /\ queue[i].next_try_at <= now
    /\ Ahead(queue, now, i) >= StarveLimit

\* the row at position j after the step is the row at position i before it,
\* not handed to the worker in between
SameRow(i, j) ==
    /\ queue'[j].op = queue[i].op
    /\ queue'[j].task_id = queue[i].task_id
    /\ queue'[j].attempts = queue[i].attempts
    /\ queue'[j].next_try_at = queue[i].next_try_at

\* the step is a pass of the worker: a row left the queue or was requeued
Handed ==
    \E i \in 1..Len(queue) : \A j \in 1..Len(queue') : ~SameRow(i, j)

\* every row is handed to the worker again, whatever fails meanwhile
EveryRowHanded ==
    \A op \in VALID_OPS, n \in 0..MaxAttempts :
        RowAt(op, n) ~> (~RowAt(op, n) \/ PastClock(op) \/ StarveOutOfIds)

\* no step puts a row before a due row that waits, and a pass takes a whole
\* batch of the rows before it away, the failed ones included
NoOvertaking ==
    [][\A i \in 1..Len(queue) :
          Waiting(i) =>
             \E j \in 1..Len(queue') :
                 /\ SameRow(i, j)
                 /\ Ahead(queue', now', j) <=
                       Ahead(queue, now, i) - (IF Handed THEN StarveLimit ELSE 0)]_vars

\* C30: every row of the queue is handed to the worker again (it leaves
\* the queue or its attempts grow), with more rows due than a batch takes
\* and rows that fail at every pass: a due row left waiting by a pass has a
\* whole batch fewer rows before it after the pass, and no step adds one
C30_NoStarvation ==
    /\ EveryRowHanded
    /\ NoOvertaking

\* more rows are due than a batch takes, and the one handed first has failed
\* before
C30_Witness ==
    LET all == due(queue, now, DueLimit)
    IN /\ Len(all) > StarveLimit
       /\ \E i \in 1..Len(queue) : queue[i].attempts > 0 /\ queue[i].next_try_at <= now

\* ------------------------------------------------ retries and the clock
\* the positions a pass hands to _execute_op, each of them once
HandedOnce(order) ==
    \A a, b \in 1..Len(order) : order[a] = order[b] => a = b

\* the row at position i of q is returned by due() at time t
ReturnedAt(q, i, t) ==
    \E k \in 1..Len(due(q, t, Len(q))) : due(q, t, Len(q))[k] = i

\* C31: within one pass of push_queue_worker a row is attempted at most
\* once, whatever the remote answers, and a row that failed is due again no
\* earlier than its new next_try_at, at least 2 seconds after the failure
C31_RetriesTimed ==
    LET order == due(queue, now, DueLimit)
    IN \A outs \in [1..Len(order) -> Outcomes] :
          LET r == push_queue_worker(tasks, queue, gcalRemote, gtasksRemote,
                                     outs, now)
          IN \/ r.full
             \/ /\ HandedOnce(order)
                /\ \A i \in 1..Len(queue) :
                      IF r.results[i] = "none"
                      THEN r.rows[i] = queue[i] /\ i \notin r.removed
                      ELSE /\ ReturnedAt(queue, i, now)
                           /\ \/ i \in r.removed
                              \/ /\ r.rows[i].attempts = queue[i].attempts + 1
                                 /\ r.rows[i].next_try_at >= now + 2
                                 /\ \A t \in now..(r.rows[i].next_try_at - 1) :
                                       ~ReturnedAt(r.rows, i, t)

\* a row failed, waited for its next_try_at, was attempted again and failed
\* again
C31_Witness ==
    \E i \in 1..Len(queue) :
        /\ queue[i].attempts >= 2
        /\ queue[i].next_try_at > now

\* ------------------------------------------------- a crash inside _save
\* C32: whatever a crash inside a setter leaves of the file, the state read
\* from it on restart is the state before the call or the state after it
C32_AtomicWrites ==
    \A r \in Setters(tokenFile, now) :
        ~r.raised =>
           \A f \in write_text_crashed(tokenFile, r.file.data) :
               _load(f).value \in {_load(tokenFile).value, _load(r.file).value}

\* --------------------------------------------- events that carry a marker
\* the event ev with the line planner_task_id:<marker> in its description,
\* as build_event_payload writes it and as a copy of the event keeps it
Marked(ev, marker) ==
    [k \in DOMAIN ev \cup {"marker"} |-> IF k = "marker" THEN marker ELSE ev[k]]

\* C33: an event that carries the marker of an existing task is merged into
\* that task by the pull, whatever its event id, and creates no task
C33_MarkerFirst ==
    \A i \in RemoteIds : \A ev \in EventsOf(i) : \A marker \in DOMAIN tasks :
        ev.status # "cancelled" =>
           LET st == _apply_calendar_event(PullState(tasks, queue, nextTaskId),
                                           Marked(ev, marker), now)
           IN ~st.full /\ st.next = nextTaskId

\* ======================================================================
\* The engine of services/sync.py: GoogleSync.pull over the calendar, with
\* the markers planner_task_id:<id> in the descriptions of the events
\* ======================================================================
MaxLegacy == 2        \* SpecLegacy: rows of the Task table
MaxLegacyQueue == 3   \* SpecLegacy: rows of the pending-operation table

LegacyRemoteIds == 1..(MaxRemote + 1)

\* core.settings: delete_on_google_cancel
DELETE_ON_GOOGLE_CANCEL == FALSE

\* what events().list returns of the event of id i; marker is what
\* _parse_marker finds in its description.  A cancelled event comes with or
\* without its description.
LegacyEventsOf(i) ==
    IF gcalRemote[i] = "gone"
    THEN {[id |-> i, status |-> "cancelled", title |-> NoneStr, notes |-> NoneStr,
           start |-> None, end |-> None, marker |-> m] :
             m \in {None, eventMarker[i]}}
    ELSE IF gcalRemote[i] = "live"
    THEN {[id |-> i, status |-> "confirmed", title |-> t, notes |-> n,
           start |-> 1, end |-> 2, marker |-> eventMarker[i]] :
             t \in RemoteTitles, n \in RemoteNotes}
    ELSE {}

\* the listings: any of the events, in the order of their ids
RECURSIVE LegacyListingsFrom(_)
LegacyListingsFrom(i) ==
    IF i > MaxRemote + 1 THEN {<<>>}
    ELSE LET rest == LegacyListingsFrom(i + 1)
         IN rest \cup {<<x>> \o l : x \in LegacyEventsOf(i), l \in rest}

\* TaskService.get
get(ts, task_id) ==
    IF task_id # None /\ task_id \in DOMAIN ts THEN task_id ELSE None

\* TaskService.update as GoogleSync.pull calls it, with title and notes
update_with_notes(ts, id, title, notes, start, duration, at) ==
    IF id \notin DOMAIN ts THEN ts
    ELSE [ts EXCEPT ![id] =
            [@ EXCEPT !.title = title, !.notes = notes, !.start = start,
                      !.duration_minutes = duration, !.updated_at = at]]

\* TaskService.set_event_id
set_event_id(ts, id, event_id, at) ==
    IF id \notin DOMAIN ts THEN ts
    ELSE [ts EXCEPT ![id] = [@ EXCEPT !.gcal_event_id = event_id,
                                      !.updated_at = at]]

\* TaskService.unschedule
unschedule(ts, id) ==
    IF id \notin DOMAIN ts THEN ts
    ELSE [ts EXCEPT ![id] = [@ EXCEPT !.start = None,
                                      !.duration_minutes = None,
                                      !.gcal_event_id = None]]

\* what a pull threads through the events: the Task table, the queue the
\* hooks of TaskService fill, the next Task id, the markers of the remote
\* events, the patch calls made, and whether a call raised
LegacyState(ts, q, nid, markers) ==
    [tasks |-> ts, queue |-> q, next |-> nid, markers |-> markers,
     patches |-> 0, changed |-> FALSE, raised |-> FALSE, full |-> FALSE]

\* events().patch of the description whose exception reaches the caller
patch_marker_raising(st, event_id, id, patched) ==
    IF patched
    THEN [st EXCEPT !.markers[event_id] = id, !.patches = @ + 1]
    ELSE [st EXCEPT !.patches = @ + 1, !.raised = TRUE]

\* try: events().patch(body={"description": ... planner_task_id:<id>})
\* except Exception: pass
patch_marker(st, event_id, id, patched) ==
    IF patched
    THEN [st EXCEPT !.markers[event_id] = id, !.patches = @ + 1]
    ELSE [st EXCEPT !.patches = @ + 1]

\* GoogleSync.pull, the body of the loop over the items of a page
GoogleSync_apply(st, ev, patched, at) ==
    LET tid == ev.marker
        duration == _duration_minutes(ev.start, ev.end)
    IN IF st.raised \/ st.full THEN st
       ELSE IF ev.status = "cancelled"
       THEN LET target == IF tid # None THEN get(st.tasks, tid)
                          ELSE get_by_event_id(st.tasks, ev.id)
            IN IF target = None THEN st
               ELSE IF DELETE_ON_GOOGLE_CANCEL
               THEN [st EXCEPT
                       !.queue = _emit(@, on_task_deleted(@, st.tasks, target, at), 0).queue,
                       !.tasks = delete(@, target),
                       !.changed = TRUE]
               ELSE [st EXCEPT !.tasks = unschedule(@, target), !.changed = TRUE]
       ELSE LET byMarker == IF tid # None THEN get(st.tasks, tid) ELSE None
                id == IF byMarker # None THEN byMarker
                      ELSE get_by_event_id(st.tasks, ev.id)
            IN IF id # None
               THEN LET u == update_with_notes(st.tasks, id, ItemTitle(ev), ev.notes,
                                               ev.start, duration, at)
                        q == _emit(st.queue, on_task_updated(st.queue, u, id, at), 0).queue
                        linked == IF st.tasks[id].gcal_event_id # ev.id
                                  THEN set_event_id(u, id, ev.id, at) ELSE u
                        done == [st EXCEPT !.tasks = linked, !.queue = q,
                                           !.changed = TRUE]
                    IN IF tid # id THEN patch_marker(done, ev.id, id, patched)
                       ELSE done
               ELSE IF st.next > MaxLegacy THEN [st EXCEPT !.full = TRUE]
               ELSE LET nid == st.next
                        a == add(st.tasks, nid, ItemTitle(ev), ev.notes, ev.start,
                                 duration, at)
                        q == _emit(st.queue, on_task_created(st.queue, a, nid, at), 0).queue
                        done == [st EXCEPT !.tasks = set_event_id(a, nid, ev.id, at),
                                           !.queue = q, !.next = nid + 1,
                                           !.changed = TRUE]
                    IN patch_marker(done, ev.id, nid, patched)

RECURSIVE LegacyLoop(_, _, _, _, _)
LegacyLoop(st, items, n, patched, at) ==
    IF n = 0 THEN st
    ELSE GoogleSync_apply(LegacyLoop(st, items, n - 1, patched, at),
                          items[n], patched[n], at)

\* GoogleSync.pull.  The listing arrives as one page per item and a last,
\* empty page with nextSyncToken; failPage = k: the request of page k
\* raises, which nothing catches.  patched[k]: the patch of the k-th event
\* is served.
GoogleSync_pull(ts, q, nid, f, markers, items, patched, failPage, newToken, at) ==
    LET n == IF failPage = 0 THEN Len(items) ELSE failPage - 1
        st == LegacyLoop(LegacyState(ts, q, nid, markers), items, n, patched, at)
        raised == st.raised \/ failPage # 0
    IN [tasks |-> st.tasks, queue |-> st.queue, next |-> st.next,
        markers |-> st.markers, patches |-> st.patches, changed |-> st.changed,
        full |-> st.full, raised |-> raised,
        params |-> calendar_list_params(get_sync_token(f).value, at),
        file |-> IF ~raised /\ newToken # None
                 THEN set_sync_token(f, newToken).file ELSE f]

LegacyPull(items, patched, failPage, newToken) ==
    /\ pc = "idle"
    /\ failPage <= Len(items) + 1
    /\ LET r == GoogleSync_pull(tasks, queue, nextTaskId, tokenFile, eventMarker,
                                items, patched, failPage, newToken, now)
       IN /\ ~r.full
          /\ Len(r.queue) <= MaxLegacyQueue
          /\ tasks' = r.tasks
          /\ queue' = r.queue
          /\ nextTaskId' = r.next
          /\ eventMarker' = r.markers
          /\ tokenFile' = r.file
    /\ UNCHANGED <<now, calToken, tasksUpdatedMin, gcalRemote, gtasksRemote, pc,
                   mappings, index, bridge, store, lastPush, remoteTasks,
                   localWon, eventBody, appdata, shell, tasksPull>>

\* somebody creates an event in the calendar, or copies one with its
\* description
LegacyRemoteCreate(i, marker) ==
    /\ gcalRemote[i] = "free"
    /\ gcalRemote' = [gcalRemote EXCEPT ![i] = "live"]
    /\ eventMarker' = [eventMarker EXCEPT ![i] = marker]
    /\ UNCHANGED <<tasks, nextTaskId, queue, now, calToken, tasksUpdatedMin,
                   gtasksRemote, pc, mappings, index, bridge, store, lastPush,
                   remoteTasks, tokenFile, localWon, eventBody, appdata, shell, tasksPull>>

\* somebody deletes an event
LegacyRemoteCancel(i) ==
    /\ gcalRemote[i] = "live"
    /\ gcalRemote' = [gcalRemote EXCEPT ![i] = "gone"]
    /\ UNCHANGED <<tasks, nextTaskId, queue, now, calToken, tasksUpdatedMin,
                   gtasksRemote, pc>>
    /\ UNCHANGED otherEngines

InitLegacy ==
    /\ tasks = <<>>
    /\ nextTaskId = 1
    /\ queue = <<>>
    /\ now = StartTime
    /\ calToken = None
    /\ tasksUpdatedMin = None
    /\ gcalRemote = [i \in LegacyRemoteIds |-> "free"]
    /\ gtasksRemote = [i \in RemoteIds |-> "free"]
    /\ pc = "idle"
    /\ mappings = <<>>
    /\ index = <<>>
    /\ bridge = "GoogleTasksBridge"
    /\ store = <<>>
    /\ lastPush = None
    /\ remoteTasks = <<>>
    /\ tokenFile = [kind |-> "missing", data |-> EmptyData]
    /\ localWon = {}
    /\ eventBody = [i \in RemoteIds |-> NoBody]
    /\ appdata = AppDataInit
    /\ eventMarker = [i \in LegacyRemoteIds |-> None]
    /\ shell = ShellInit
    /\ tasksPull = TasksPullInit

NextLegacy ==
    \/ \E title \in LocalTitles, s \in Schedules :
          LocalAdd(title, s[1], s[2], MaxLegacyQueue)
    \/ \E id \in TaskIds : LocalDelete(id, MaxLegacyQueue)
    \/ \E i \in LegacyRemoteIds, marker \in {None} \cup DOMAIN tasks :
          LegacyRemoteCreate(i, marker)
    \/ \E i \in LegacyRemoteIds : LegacyRemoteCancel(i)
    \/ \E items \in LegacyListingsFrom(1) :
          \E patched \in [1..Len(items) -> BOOLEAN],
             failPage \in 0..(MaxRemote + 2), newToken \in {None} \cup Tokens :
                LegacyPull(items, patched, failPage, newToken)
    \/ Tick

SpecLegacy == InitLegacy /\ [][NextLegacy]_vars

\* ------------------------------------------------ the marker write-back
\* the pull of the listing with every patch served
Served_pull(items, newToken) ==
    GoogleSync_pull(tasks, queue, nextTaskId, tokenFile, eventMarker, items,
                    [k \in 1..Len(items) |-> TRUE], 0, newToken, now)

\* the k-th event of the listing makes the pull create a task
Creates(items, k) ==
    LET before == LegacyLoop(LegacyState(tasks, queue, nextTaskId, eventMarker),
                             items, k - 1, [j \in 1..Len(items) |-> TRUE], now)
        after == GoogleSync_apply(before, items[k], TRUE, now)
    IN after.next = before.next + 1

InPass(c) == shell[c].at \in {"pull", "push"}

Other(c) == IF c = "loop" THEN "ui" ELSE "loop"

\* A pass is requested: the sleep of _loop ends ("tick"), the user changes
\* the page (on_nav_change, "nav") or a page calls current_page_auto_sync
\* ("auto_sync").  Nothing looks at whether a pass is running; the only
\* test, _has_open_overlay, is about dialogs.
ShellFire(c, kind) ==
    /\ shell[c].at = "idle"
    /\ kind = "tick" <=> c = "loop"
    /\ shell' = [shell EXCEPT ![c] = [at |-> "fired", during |-> InPass(Other(c)),
                                      kind |-> kind]]
    /\ UNCHANGED <<tasks, nextTaskId, queue, now, calToken, tasksUpdatedMin,
                   gcalRemote, gtasksRemote, pc, mappings, index, bridge, store,
                   lastPush, remoteTasks, tokenFile, localWon, eventBody, appdata,
                   eventMarker, tasksPull>>

\* The requested pass begins.  _loop runs as a task of the page's event
\* loop (page.run_task) and the handlers are plain functions the UI toolkit
\* calls: at once on a thread of its own, or when the event loop is free
ShellStart(c) ==
    /\ shell[c].at = "fired"
    /\ shell' = [shell EXCEPT ![c].at = "pull"]
    /\ UNCHANGED <<tasks, nextTaskId, queue, now, calToken, tasksUpdatedMin,
                   gcalRemote, gtasksRemote, pc, mappings, index, bridge, store,
                   lastPush, remoteTasks, tokenFile, localWon, eventBody, appdata,
                   eventMarker, tasksPull>>

\* _pull_from_google: pull_all; on_nav_change stops after it
ShellPull(c, events, entries) ==
    /\ shell[c].at = "pull"
    /\ LET r == pull_all(tasks, queue, nextTaskId, events, entries, now)
       IN /\ ~r.full
          /\ Len(r.queue) <= MaxQueue
          /\ tasks' = r.tasks
          /\ queue' = r.queue
          /\ nextTaskId' = r.next
    /\ shell' = [shell EXCEPT ![c].at = IF shell[c].kind = "nav" THEN "idle"
                                        ELSE "push"]
    /\ UNCHANGED <<now, calToken, tasksUpdatedMin, gcalRemote, gtasksRemote, pc,
                   mappings, index, bridge, store, lastPush, remoteTasks,
                   tokenFile, localWon, eventBody, appdata, eventMarker, tasksPull>>

\* _push_to_google: push_queue_worker
ShellPush(c, outs) ==
    /\ shell[c].at = "push"
    /\ Len(outs) = Len(due(queue, now, DueLimit))
    /\ LET r == push_queue_worker(tasks, queue, gcalRemote, gtasksRemote, outs, now)
       IN /\ ~r.full
          /\ tasks' = r.tasks
          /\ queue' = Compact(r.rows, r.removed, Len(queue))
          /\ gcalRemote' = r.gcal
          /\ gtasksRemote' = r.gtasks
    /\ shell' = [shell EXCEPT ![c].at = "idle"]
    /\ UNCHANGED <<nextTaskId, now, calToken, tasksUpdatedMin, pc,
                   mappings, index, bridge, store, lastPush, remoteTasks,
                   tokenFile, localWon, eventBody, appdata, eventMarker, tasksPull>>

NextShell ==
    \/ \E title \in LocalTitles, s \in Schedules :
          LocalAdd(title, s[1], s[2], MaxQueue)
    \/ \E c \in Callers, kind \in {"tick", "nav", "auto_sync"} : ShellFire(c, kind)
    \/ \E c \in Callers : ShellStart(c)
    \/ \E c \in Callers : \E events \in EventListings, entries \in EntryListings :
          ShellPull(c, events, entries)
    \/ \E c \in Callers : \E n \in 0..MaxQueue : \E outs \in [1..n -> Served] :
          ShellPush(c, outs)
    \/ Tick

SpecShell == Init /\ [][NextShell]_vars

\* C35: at most one caller is inside a pass, and a pass requested while
\* another was running is skipped, never run
C35_NoOverlap ==
    /\ ~(InPass("loop") /\ InPass("ui"))
    /\ \A c \in Callers : InPass(c) => ~shell[c].during

\* ------------------------------------------- one mapping row per task id
\* C36: whatever the remote list holds, the pull of the undated tasks ends
\* without a key conflict on the mapping table: a task that already has a
\* mapping row keeps that one row
C36_OneMappingRow ==
    \A items \in UndatedListings, answer \in IndexAnswers :
        ~undated_pull(tasks, nextTaskId, mappings, index, items, FALSE, answer,
                      now, now, LocalDevice).raised

\* ------------------------------------------------ stale deletes and links
\* the remote link of a task that a queued delete is about
LinkOf(ts, e) ==
    IF e.op = "gcal_delete" THEN ts[e.task_id].gcal_event_id
    ELSE ts[e.task_id].gtasks_id

\* a due delete that names an entity the task is no longer linked to,
\* while the task is linked to another one
StaleDelete(e) ==
    /\ e.op \in {"gcal_delete", "gtasks_delete"}
    /\ e.next_try_at <= now
    /\ e.payload # None
    /\ e.task_id \in DOMAIN tasks
    /\ LinkOf(tasks, e) \notin {None, e.payload}

\* the push side against remotes that have room for a second entity per
\* backend: a task unlinked from one entity can be linked to a newer one
RelinkIds == 1..(MaxRemote + 1)

InitRelink ==
    /\ tasks = <<>>
    /\ nextTaskId = 1
    /\ queue = <<>>
    /\ now = StartTime
    /\ calToken = None
    /\ tasksUpdatedMin = None
    /\ gcalRemote = [i \in RelinkIds |-> "free"]
    /\ gtasksRemote = [i \in RelinkIds |-> "free"]
    /\ pc = "idle"
    /\ mappings = <<>>
    /\ index = <<>>
    /\ bridge = "GoogleTasksBridge"
    /\ store = <<>>
    /\ lastPush = None
    /\ remoteTasks = <<>>
    /\ tokenFile = [kind |-> "missing", data |-> EmptyData]
    /\ localWon = {}
    /\ eventBody = [i \in RemoteIds |-> NoBody]
    /\ appdata = AppDataInit
    /\ eventMarker = [i \in RemoteIds |-> None]
    /\ shell = ShellInit
    /\ tasksPull = TasksPullInit

NextRelink ==
    \/ \E title \in LocalTitles, s \in Schedules :
          LocalAdd(title, s[1], s[2], MaxBacklog)
    \/ \E id \in TaskIds, title \in LocalTitles, s \in Schedules :
          LocalUpdate(id, title, s[1], s[2], MaxBacklog)
    \/ \E n \in 0..MaxBacklog : \E outs \in [1..n -> Served] : PushQueueWorker(outs)
    \/ Tick

SpecRelink == InitRelink /\ [][NextRelink]_vars

\* C37: executing a queued delete that names entity E leaves the link of a
\* task that is by now linked to another entity as it is, whatever the remote
\* answers
C37_StaleDeleteKeepsLink ==
    \A i \in 1..Len(queue), out \in Outcomes :
        StaleDelete(queue[i]) =>
            LET st == WorkerState(tasks, queue, gcalRemote, gtasksRemote)
                r == _execute_op(queue[i], [st EXCEPT !.res = "none"], out, now)
            IN LinkOf(r.tasks, queue[i]) = LinkOf(tasks, queue[i])

\* ------------------------------------------------------------- no echo
\* the rows a pull appended to the pending-operation table
Appended(q) == SubSeq(q, Len(queue) + 1, Len(q))

\* C38: a pull that creates or overwrites local tasks from the events of a
\* listing runs no mutation hook: it appends no gcal_create and no
\* gcal_update to the pending-operation table, so the next pass of the
\* worker writes nothing back to the calendar for the events pulled
C38_NoEcho ==
    \A items \in LegacyListingsFrom(1) : \A newToken \in Tokens :
        LET r == Served_pull(items, newToken)
        IN r.full \/
           \A k \in 1..Len(Appended(r.queue)) :
               Appended(r.queue)[k].op \notin {"gcal_create", "gcal_update"}

\* -------------------------------------------- the watermark of the tasks
\* tasks().list(updatedMin = updated_min, showDeleted, showCompleted,
\* showHidden): the items modified at or after the lower bound, as they are
\* when the request is served
tasks_list(remote, updated_min) ==
    LET ids == {g \in DOMAIN remote :
                  updated_min = None \/ remote[g].updated >= updated_min}
    IN [g \in ids |-> remote[g]]

\* the loop of pull over the items of the response, in the order of the ids
RECURSIVE ApplyPage(_, _, _, _)
ApplyPage(st, page, ids, at) ==
    IF ids = {} \/ st.full THEN st
    ELSE LET g == Min(ids)
             r == _apply_remote_task(st.tasks, st.next, st.store, g, page[g], at)
         IN ApplyPage([r EXCEPT !.changed = st.changed \/ r.changed],
                      page, ids \ {g}, at)

\* GoogleTasksSync.pull from the response on: the items are applied, then
\* update_meta(updated_min = _utcnow_iso()), the clock of this device read
\* in whole seconds when the loop has ended
GoogleTasksSync_pull(ts, nid, st, page, at) ==
    LET r == ApplyPage([tasks |-> ts, next |-> nid, store |-> st,
                        changed |-> FALSE, full |-> FALSE],
                       page, DOMAIN page, at)
    IN [tasks |-> r.tasks, next |-> r.next, store |-> r.store,
        changed |-> r.changed, full |-> r.full, updated_min |-> at]

\* pull(incremental=True) up to the response of tasks().list
TasksPullList ==
    /\ tasksPull.stage = "idle"
    /\ LET page == tasks_list(remoteTasks, tasksPull.updated_min)
       IN tasksPull' = [tasksPull EXCEPT
            !.stage = "listed",
            !.page = page,
            !.listed = [g \in DOMAIN page |-> page[g].etag] @@ @]
    /\ UNCHANGED <<tasks, nextTaskId, queue, now, calToken, tasksUpdatedMin,
                   gcalRemote, gtasksRemote, pc, mappings, index, bridge, store,
                   lastPush, remoteTasks, tokenFile, localWon, eventBody, appdata,
                   eventMarker, shell>>

\* the rest of pull: the items of the response are applied and the
\* watermark is stored
TasksPullFinish ==
    /\ tasksPull.stage = "listed"
    /\ LET r == GoogleTasksSync_pull(tasks, nextTaskId, store, tasksPull.page, now)
       IN /\ ~r.full
          /\ tasks' = r.tasks
          /\ nextTaskId' = r.next
          /\ store' = r.store
          /\ tasksPull' = [tasksPull EXCEPT !.stage = "idle", !.page = <<>>,
                                            !.updated_min = r.updated_min]
    /\ UNCHANGED <<queue, now, calToken, tasksUpdatedMin, gcalRemote,
                   gtasksRemote, pc, mappings, index, bridge, lastPush,
                   remoteTasks, tokenFile, localWon, eventBody, appdata,
                   eventMarker, shell>>

\* GoogleTasksSync beside the others who edit the remote list: tasks are
\* added and pushed between pulls, the remote stamps an edit with the time
\* of the edit, and the clock may advance while a pull is under way
NextTasksPull ==
    \/ \E title \in LocalTitles : tasksPull.stage = "idle" /\ UndatedAdd(title)
    \/ \E out \in {200, 503} : tasksPull.stage = "idle" /\ TasksSyncPush(out)
    \/ \E gid \in RemoteIds, edit \in RemoteEdits : RemoteTaskEdit(gid, edit, now)
    \/ TasksPullList
    \/ TasksPullFinish
    \/ Tick

SpecTasksPull == Init /\ [][NextTasksPull]_vars

\* the revision the remote holds of task g has been handed to the engine:
\* a listing returned it, or the engine wrote it
Processed(g) ==
    \/ g \in DOMAIN tasksPull.listed /\ tasksPull.listed[g] = remoteTasks[g].etag
    \/ \E i \in DOMAIN store : /\ store[i].google_task_id = g
                               /\ store[i].etag = remoteTasks[g].etag

\* C39: between pulls the stored watermark is not later than the revision
\* of a remote change the engine has not been handed, so that the next
\* listing returns it
C39_WatermarkBehind ==
    tasksPull.stage = "idle" =>
        \A g \in DOMAIN remoteTasks :
            Processed(g) \/ g \in DOMAIN tasks_list(remoteTasks, tasksPull.updated_min)

\* ------------------------------------------------- dirty tasks are pushed
\* C40: over the bridge to the remote list, with every call served and
\* room in the list, one pass of push_dirty leaves each undated task with a
\* mapping row that carries a remote id and dirty_flag = 0
C40_DirtyPushed ==
    (bridge = "GoogleTasksBridge" /\ FreeIds(gtasksRemote) # {}) =>
        \A answer \in IndexAnswers :
            LET r == push_dirty(tasks, mappings, index, gtasksRemote, bridge,
                                [id \in TaskIds |-> 200], answer, now, now,
                                LocalDevice)
            IN \A id \in DOMAIN tasks :
                  tasks[id].start = None =>
                     /\ id \in DOMAIN r.mappings
                     /\ r.mappings[id].dirty_flag = 0
                     /\ r.mappings[id].gtask_id # None

====
